---------------------------- MODULE Spec2Model ----------------------------
(***************************************************************************)
(* Host-telemetry collectors of sandeepone/os: the process collector       *)
(* (pidstat, Darwin), the cgroup collector, the filesystem collector and   *)
(* the Linux CPU collector, each with its registry of per-entity metrics.  *)
(*                                                                         *)
(* Texts are TLA+ strings; a file is a sequence of lines as bufio.Scanner  *)
(* delivers them.  float64 values are exact rationals <<num, den>> with    *)
(* <<0,0>> for NaN and <<1,0>>, <<-1,0>> for the infinities; rounding is   *)
(* not modelled.  uint64 values stay far below 2^64 in every input the     *)
(* model draws, so their sums are written without the modulus.             *)
(***************************************************************************)
EXTENDS Integers, Sequences, FiniteSets, TLC

VARIABLES
    Processes,   \* ProcessStat.Processes : pid string -> PerProcessStat
    procPass,    \* history: the kernel clock, and the call that failed last
    Cgroups,     \* CgroupStat.Cgroups : cgroup path -> PerCgroupStat
    cgPass,      \* history: what the latest CgroupStat.Collect pass found
    FS,          \* FSStat.FS : mount point -> PerFSStat
    All,         \* CPUStat.All : the aggregate PerCPU
    cpus,        \* CPUStat.cpus : cpu name -> PerCPU
    panicked,    \* a Go run-time panic has ended the process
    ticker,      \* the ticker goroutine of NewProcessStat
    returned,    \* what the latest call of a reader returned to its caller
    inPass,      \* the calls of Collect in progress, for each collector
    cgroupStat,  \* the CgroupStat: c.Mountpoint, and whether its ticker runs
    context      \* the MetricContext: the names Register was called with

vars == <<Processes, procPass, Cgroups, cgPass, FS, All, cpus, panicked, ticker,
          returned, inPass, cgroupStat, context>>

----------------------------------------------------------------------------
(* Bounds of the model *)

\* the processes have the pids 1 .. MaxPid; a task without one has pid -1
MaxPid == 2
\* the registries the readers are called on have the pids 1 .. MaxSorted
MaxSorted == 3
\* the kernel's task accounting advances with every pass, up to MaxClock
MaxClock == 2
\* number of directories below the cgroup mountpoint
MaxCgroups == 2

----------------------------------------------------------------------------
(* Go maps *)

EmptyMap == [k \in {} |-> 0]

Put(h, k, v) == [x \in (DOMAIN h) \cup {k} |-> IF x = k THEN v ELSE h[x]]

Delete(h, K) == [x \in (DOMAIN h) \ K |-> h[x]]

----------------------------------------------------------------------------
(* float64 as exact rationals *)

NaN == <<0, 0>>

Abs(x) == IF x < 0 THEN -x ELSE x

Sign(x) == IF x < 0 THEN -1 ELSE IF x > 0 THEN 1 ELSE 0

RECURSIVE GCD(_, _)
GCD(a, b) == IF b = 0 THEN a ELSE GCD(b, a % b)

Norm(n, d) ==
    IF d = 0 THEN <<Sign(n), 0>>
    ELSE LET g == GCD(Abs(n), Abs(d))
         IN  <<(Sign(d) * Sign(n) * (Abs(n) \div g)), Abs(d) \div g>>

\* float64(x) of an integer
Float(x) == <<x, 1>>

IsNaN(a) == a = NaN

FAdd(a, b) ==
    IF IsNaN(a) \/ IsNaN(b) THEN NaN
    ELSE IF a[2] = 0 /\ b[2] = 0 THEN (IF a = b THEN a ELSE NaN)
    ELSE IF a[2] = 0 THEN a
    ELSE IF b[2] = 0 THEN b
    ELSE Norm(a[1] * b[2] + b[1] * a[2], a[2] * b[2])

FMul(a, b) == Norm(a[1] * b[1], a[2] * b[2])

FDiv(a, b) ==
    IF IsNaN(a) \/ IsNaN(b) THEN NaN
    ELSE Norm(a[1] * b[2] * (IF b[1] < 0 THEN -1 ELSE 1), a[2] * Abs(b[1]))

\* a != b of two float64: true as soon as one is NaN
FNe(a, b) == IsNaN(a) \/ IsNaN(b) \/ a # b

\* a > b of two float64: false as soon as one is NaN
FGt(a, b) ==
    /\ ~IsNaN(a)
    /\ ~IsNaN(b)
    /\ IF a[2] = 0 /\ b[2] = 0 THEN a[1] > b[1]
       ELSE IF a[2] = 0 THEN a[1] > 0
       ELSE IF b[2] = 0 THEN b[1] < 0
       ELSE a[1] * b[2] > b[1] * a[2]

----------------------------------------------------------------------------
(* The metrics library: Counter and Gauge *)

\* no call of Collect is in progress.  A call in progress is given by what
\* its loop has still to visit: tasks, lines of /etc/mtab, cgroups.
NoPass == [pidstat |-> <<>>, fsstat |-> <<>>, cgroup |-> <<>>, cpustat |-> <<>>]

\* no reader was called yet; v is the slice a reader returns
NoReturn == [call |-> "none", v |-> <<>>]

\* metrics.NewCounter(): no sample yet.  n counts the Sets, capped at 2.
NewCounter == [v |-> 0, p |-> 0, n |-> 0]

\* Counter.Set(x): the value set before becomes the baseline of the rate
CounterSet(c, x) == [v |-> x, p |-> c.v, n |-> IF c.n < 2 THEN c.n + 1 ELSE 2]

\* Counter.Get()
CounterGet(c) == c.v

\* Counter.ComputeRate() when dt seconds lie between the last two Sets
ComputeRate(c, dt) ==
    IF c.n < 2 \/ dt <= 0 THEN NaN ELSE Norm(c.v - c.p, dt)

\* metrics.NewGauge(): not a number until it is set
NewGauge == NaN

\* Gauge.Set(x)
GaugeSet(g, x) == x

\* Gauge.Get()
GaugeGet(g) == g

----------------------------------------------------------------------------
(* Strings *)

Char(s, i) == SubSeq(s, i, i)

Digits == {"0", "1", "2", "3", "4", "5", "6", "7", "8", "9"}

DigitVal(c) ==
    CASE c = "0" -> 0 [] c = "1" -> 1 [] c = "2" -> 2 [] c = "3" -> 3
      [] c = "4" -> 4 [] c = "5" -> 5 [] c = "6" -> 6 [] c = "7" -> 7
      [] c = "8" -> 8 [] c = "9" -> 9

DigitChar(d) ==
    CASE d = 0 -> "0" [] d = 1 -> "1" [] d = 2 -> "2" [] d = 3 -> "3"
      [] d = 4 -> "4" [] d = 5 -> "5" [] d = 6 -> "6" [] d = 7 -> "7"
      [] d = 8 -> "8" [] d = 9 -> "9"

\* fmt.Sprintf("%v", n) of an integer
RECURSIVE Itoa(_)
Itoa(n) ==
    IF n < 0 THEN "-" \o Itoa(-n)
    ELSE IF n < 10 THEN DigitChar(n)
    ELSE Itoa(n \div 10) \o DigitChar(n % 10)

\* the decimal value of a string of digits
RECURSIVE DecValue(_)
DecValue(s) ==
    IF Len(s) = 0 THEN 0
    ELSE 10 * DecValue(SubSeq(s, 1, Len(s) - 1)) + DigitVal(Char(s, Len(s)))

RECURSIVE StripZeros(_)
StripZeros(s) ==
    IF Len(s) > 1 /\ Char(s, 1) = "0" THEN StripZeros(Tail(s)) ELSE s

\* a > b for two strings of digits of the same length
RECURSIVE DecGreater(_, _)
DecGreater(a, b) ==
    IF Len(a) = 0 THEN FALSE
    ELSE IF DigitVal(Char(a, 1)) # DigitVal(Char(b, 1))
         THEN DigitVal(Char(a, 1)) > DigitVal(Char(b, 1))
         ELSE DecGreater(Tail(a), Tail(b))

\* math.MaxUint64 in decimal
MaxUint64Text == "18446744073709551615"

\* strconv.ParseUint(in, 10, 64) fails: syntax (empty, or a character that
\* is no digit) or range (the value exceeds 2^64 - 1)
ParseUintFails(in) ==
    \/ Len(in) = 0
    \/ \E i \in 1 .. Len(in) : Char(in, i) \notin Digits
    \/ LET d == StripZeros(in)
       IN  \/ Len(d) > Len(MaxUint64Text)
           \/ Len(d) = Len(MaxUint64Text) /\ DecGreater(d, MaxUint64Text)

\* misc.ParseUint(in): 0 when strconv.ParseUint fails
ParseUint(in) == IF ParseUintFails(in) THEN 0 ELSE DecValue(in)

\* the characters the regular expression \s matches
IsSpace(c) == c \in {" ", "\t", "\n", "\f", "\r"}

\* index of the first whitespace character of s at or after i, 0 if none
RECURSIVE FindSpace(_, _)
FindSpace(s, i) ==
    IF i > Len(s) THEN 0
    ELSE IF IsSpace(Char(s, i)) THEN i
    ELSE FindSpace(s, i + 1)

\* index of the last character of the run of whitespace that starts at i
RECURSIVE SpaceEnd(_, _)
SpaceEnd(s, i) ==
    IF i < Len(s) /\ IsSpace(Char(s, i + 1)) THEN SpaceEnd(s, i + 1) ELSE i

\* regexp.MustCompile("\\s+").Split(s, n)
RECURSIVE RegexpSplit(_, _)
RegexpSplit(s, n) ==
    IF n = 0 THEN <<>>
    ELSE IF Len(s) = 0 THEN <<"">>
    ELSE LET i == FindSpace(s, 1)
         IN  IF n = 1 \/ i = 0 THEN <<s>>
             ELSE <<SubSeq(s, 1, i - 1)>>
                  \o RegexpSplit(SubSeq(s, SpaceEnd(s, i) + 1, Len(s)), n - 1)

\* index of the first sep (one character) in s, 0 if none
RECURSIVE IndexOf(_, _, _)
IndexOf(s, sep, i) ==
    IF i > Len(s) THEN 0
    ELSE IF Char(s, i) = sep THEN i
    ELSE IndexOf(s, sep, i + 1)

\* strings.Split(s, sep) for a separator of one character
RECURSIVE StringsSplit(_, _)
StringsSplit(s, sep) ==
    LET i == IndexOf(s, sep, 1)
    IN  IF i = 0 THEN <<s>>
        ELSE <<SubSeq(s, 1, i - 1)>>
             \o StringsSplit(SubSeq(s, i + 1, Len(s)), sep)

\* strings.HasPrefix(s, prefix)
HasPrefix(s, prefix) ==
    Len(s) >= Len(prefix) /\ SubSeq(s, 1, Len(prefix)) = prefix

\* f[i] of a Go slice is in range
InRange(f, i) == 0 <= i /\ i < Len(f)

\* f[i] of a Go slice (indices from 0)
At(f, i) == f[i + 1]

----------------------------------------------------------------------------
(* pidstat (Darwin): ProcessStat *)

KERN_SUCCESS == "KERN_SUCCESS"

KERN_FAILURE == "KERN_FAILURE"

KernReturn == {KERN_SUCCESS, KERN_FAILURE}

\* mach_timebase_info of the host: absolute time units are numer/denom ns
TimebaseNumer == 125

TimebaseDenom == 3

\* absolute_to_nano(abs)
absolute_to_nano(abs) == (abs * TimebaseNumer) \div TimebaseDenom

\* The kernel's answers for the task of process pid at kernel clock i:
\* MACH_TASK_BASIC_INFO and TASK_ABSOLUTETIME_INFO
BasicInfo(pid, i) ==
    [virtual_size      |-> 4096 * (pid + 2 + i),
     resident_size     |-> 4096 * (pid + i),
     resident_size_max |-> 4096 * (pid + 1 + i)]

AbsInfo(pid, i) ==
    [total_user   |-> 6 * (pid + 1) * i,
     total_system |-> 3 * i]

\* kinfo_proc of process pid, as get_process_info fills it
KernComm(pid) == "proc" \o Itoa(pid)

KernUid(pid) == 500 + pid

\* what sysctl returns to get_process_info
SysctlReturn == {0, -1}

\* get_process_info(&kp, pid): kp is zeroed when it is declared and
\* p_comm[0] is cleared before sysctl is called, so that a sysctl that
\* fails (ret # 0) leaves an empty p_comm and the uid 0
get_process_info(pid, ret) ==
    IF ret = 0 THEN [ret |-> ret, p_comm |-> KernComm(pid), cr_uid |-> KernUid(pid)]
    ELSE [ret |-> ret, p_comm |-> "", cr_uid |-> 0]

\* the uids of the user database; the others have no entry
PasswdUids == {0, 501, 503}

\* user.LookupId(uid): err is UnknownUserIdError for a uid without entry
LookupId(uid) ==
    IF uid \in PasswdUids
    THEN [err |-> FALSE, Username |-> IF uid = 0 THEN "root" ELSE "u" \o Itoa(uid)]
    ELSE [err |-> TRUE, Username |-> ""]

\* One entry of the task array returned by processor_set_tasks at kernel
\* clock i, with what pid_for_task, the two task_info calls and sysctl
\* answer for it; the processes have the pids 1 .. n
Tasks(i, n) ==
    { t \in [pid : {-1} \cup (1 .. n), pid_kr : KernReturn, basic_kr : KernReturn,
             sysctl : SysctlReturn, abs_kr : KernReturn, info : {i}] :
        /\ (t.pid_kr = KERN_FAILURE => t.basic_kr = KERN_FAILURE)
        /\ (t.basic_kr = KERN_FAILURE => t.sysctl = 0)
        /\ (t.pid < 0 => t.pid_kr = KERN_SUCCESS /\ t.basic_kr = KERN_FAILURE)
        /\ (t.basic_kr = KERN_FAILURE => t.abs_kr = KERN_FAILURE) }

\* The task arrays the kernel returns: at most one task per pid, in pid order
RECURSIVE TaskArraysFrom(_, _, _)
TaskArraysFrom(pid, i, n) ==
    IF pid > n THEN {<<>>}
    ELSE { h \o r : h \in {<<>>} \cup { <<t>> : t \in {u \in Tasks(i, n) : u.pid = pid} },
                    r \in TaskArraysFrom(pid + 1, i, n) }

\* NewPerProcessStatMetrics: misc.InitializeMetrics allocates every field
NewPerProcessStatMetrics ==
    [VirtualSize     |-> NewGauge,
     ResidentSize    |-> NewGauge,
     ResidentSizeMax |-> NewGauge,
     UserTime        |-> NewCounter,
     SystemTime      |-> NewCounter]

\* misc.InitializeMetrics(c, m, prefix, register), c having the Counter and
\* Gauge pointer fields named fields: the names it registers in the metric
\* context m (it allocates every field, see the New... of the entities)
InitializeMetrics(fields, prefix, register) ==
    IF register THEN { prefix \o "." \o F : F \in fields } ELSE {}

\* a metric context that forgets what was registered
Registered_None(h) == {}

\* the names the entities of the map h registered when they were constructed
Registered(h) == UNION { h[k].registered : k \in DOMAIN h }

\* filepath.Rel(basepath, targpath) for a target at or below basepath
Rel(basepath, targpath) ==
    IF targpath = basepath THEN "."
    ELSE SubSeq(targpath, Len(basepath) + 2, Len(targpath))

\* NewPerProcessStat(m, p).  created and fetched are history: the object was
\* constructed, resp. its attributes were fetched, in the latest pass;
\* registered has the names NewPerProcessStatMetrics registered.
NewPerProcessStat(p) ==
    [pid     |-> p,
     registered |-> InitializeMetrics(DOMAIN NewPerProcessStatMetrics,
                                      "pidstat.", FALSE),
     Uid     |-> 0,
     user    |-> "",
     comm    |-> "",
     Metrics |-> NewPerProcessStatMetrics,
     dead    |-> FALSE,
     created |-> TRUE,
     fetched |-> FALSE]

\* comm and Uid are never assigned
SetKinfo_Skip(s, pid, ret) == s

\* PerProcessStat.CollectAttributes(pid), up to the lookup of the user:
\* sysctl returns ret, the value get_process_info returns is not looked at
SetKinfo(s, pid, ret) ==
    LET kp == get_process_info(pid, ret)
    IN  [s EXCEPT !.comm = kp.p_comm, !.Uid = kp.cr_uid]

\* PerProcessStat.CollectAttributes(pid), the lookup of the user of s.Uid:
\* user is assigned only when the lookup succeeds
SetUser(s) ==
    LET u == LookupId(s.Uid)
    IN  [s EXCEPT !.user = IF ~u.err THEN u.Username ELSE @, !.fetched = TRUE]

\* PerProcessStat.CollectAttributes(pid)
CollectAttributes(s, pid, ret) == SetUser(SetKinfo(s, pid, ret))

\* ProcessStat.Collect, first loop: every tracked entity is marked dead
MarkDead(h) ==
    [k \in DOMAIN h |-> [h[k] EXCEPT !.dead = TRUE,
                                     !.created = FALSE,
                                     !.fetched = FALSE]]

\* ProcessStat.Collect, the body of the loop: the entity of a task whose
\* pid and basic info were read is constructed when the pid is not tracked
InsertTask(h, t) ==
    IF Itoa(t.pid) \in DOMAIN h THEN h
    ELSE Put(h, Itoa(t.pid), NewPerProcessStat(Itoa(t.pid)))

\* ProcessStat.Collect, the body of the loop: the three gauges are set
SetSizes(s, t) ==
    LET basic == BasicInfo(t.pid, t.info)
    IN  [s EXCEPT !.Metrics.VirtualSize = GaugeSet(@, Float(basic.virtual_size)),
                  !.Metrics.ResidentSize = GaugeSet(@, Float(basic.resident_size)),
                  !.Metrics.ResidentSizeMax =
                      GaugeSet(@, Float(basic.resident_size_max))]

\* pidstat.Metrics.UserTime.Set(absolute_to_nano(total_user)), the
\* TASK_ABSOLUTETIME_INFO of the task having been read
SetUserTime(s, t) ==
    [s EXCEPT !.Metrics.UserTime =
                  CounterSet(@, absolute_to_nano(AbsInfo(t.pid, t.info).total_user))]

\* pidstat.Metrics.SystemTime.Set(absolute_to_nano(total_system)), after
\* which the entity is not dead
SetSystemTime(s, t) ==
    [s EXCEPT !.Metrics.SystemTime =
                  CounterSet(@, absolute_to_nano(AbsInfo(t.pid, t.info).total_system)),
              !.dead = FALSE]

\* ProcessStat.Collect, the body of the loop after TASK_ABSOLUTETIME_INFO:
\* on a failure the turn ends, otherwise the two counters are set and the
\* entity is not dead
SetTimes(s, t) ==
    IF t.abs_kr # KERN_SUCCESS THEN s ELSE SetSystemTime(SetUserTime(s, t), t)

\* ProcessStat.Collect, the body of the loop over the task array
CollectTask(h, t, collectAttributes) ==
    IF t.pid_kr # KERN_SUCCESS \/ t.pid < 0 THEN h
    ELSE IF t.basic_kr # KERN_SUCCESS THEN h
    ELSE
      LET spid == Itoa(t.pid)
          ok == spid \in DOMAIN h
          h1 == InsertTask(h, t)
          pidstat1 == IF collectAttributes \/ ~ok
                      THEN CollectAttributes(h1[spid], t.pid, t.sysctl)
                      ELSE h1[spid]
      IN  Put(h1, spid, SetTimes(SetSizes(pidstat1, t), t))

\* ProcessStat.Collect, the loop over the task array
RECURSIVE CollectTasks(_, _, _)
CollectTasks(h, tasks, collectAttributes) ==
    IF tasks = <<>> THEN h
    ELSE CollectTasks(CollectTask(h, Head(tasks), collectAttributes),
                      Tail(tasks), collectAttributes)

\* ProcessStat.Collect, last loop: remove dead processes
RemoveDead(h) == Delete(h, {k \in DOMAIN h : h[k].dead})

\* The three calls that enumerate the tasks, in the order they are made
EnumCalls ==
    {"processor_set_default", "host_processor_set_priv", "processor_set_tasks"}

\* The task arrays processor_set_tasks returns, each task given by the pid
\* of its process: at most one task per process 1 .. n, in pid order, after
\* at most one task for which pid_for_task gives -1
RECURSIVE TaskListsFrom(_, _)
TaskListsFrom(pid, n) ==
    IF pid > n THEN {<<>>}
    ELSE { h \o r : h \in {<<>>, <<pid>>},
                    r \in TaskListsFrom(IF pid < 0 THEN 1 ELSE pid + 1, n) }

TaskLists(n) == TaskListsFrom(-1, n)

\* the kernel clock of the latest pass (the task accounting the kernel
\* answers with advances from pass to pass), and which of the enumerating
\* calls failed in the latest pass that has enumerated
NoProcPass == [clock |-> 0, failed |-> "none"]

\* the kernel clock one pass later, for a clock that stops at max
TickTo(clock, max) == IF clock < max THEN clock + 1 ELSE clock

\* the kernel clock after one more pass
Tick(clock) == TickTo(clock, MaxClock)

----------------------------------------------------------------------------
(* pidstat (Darwin): the ticker of NewProcessStat *)

\* number of firings of the ticker
MaxTicks == 3

\* numbers of processes the kernel lists in a pass of the ticker
ProcessCounts == {0, 1, 2}

\* the smallest number of tracked processes for which p is 2
ManyProcesses == 2048

\* NewProcessStat: the state of the goroutine that serves the ticker.  n is
\* its counter and p the p of the firing; firing tells that the body of the
\* loop is being executed, todo has the collectAttributes of the calls of
\* c.Collect the firing has still to make and passes, which is history,
\* those of the calls it made.
NewTicker == [n |-> 0, p |-> 0, passes |-> <<>>, todo |-> <<>>, firing |-> FALSE]

\* the body of the loop over ticker.C: the calls of c.Collect made by
\* firing number n when c.Processes has len entries
TickerPasses(n, len) ==
    LET p == len \div 1024
    IN  (IF n = 0 THEN <<TRUE>> ELSE <<>>)
        \o (IF p < 1 \/ n % p = 0 THEN <<FALSE>> ELSE <<>>)

\* ProcessStat.Collect(collectAttributes) on the registry h, from its call
\* to its return, when the kernel lists the processes 1 .. found at clock i
\* and answers every call: the turns of the loop write to distinct keys, so
\* that the entity of key k is what the turn of its task makes of it, and
\* the entities of the other keys stay dead and are removed
CollectFound(h, found, i, collectAttributes) ==
    [k \in { Itoa(pid) : pid \in 1 .. found } |->
        LET t  == [pid |-> ParseUint(k), pid_kr |-> KERN_SUCCESS,
                   basic_kr |-> KERN_SUCCESS, sysctl |-> 0,
                   abs_kr |-> KERN_SUCCESS, info |-> i]
            hk == MarkDead([x \in {k} \cap DOMAIN h |-> h[x]])
        IN  CollectTask(hk, t, collectAttributes)[k]]

\* the calls of c.Collect of one firing, in order, the first at clock i
RECURSIVE CollectPasses(_, _, _, _)
CollectPasses(h, passes, found, i) ==
    IF passes = <<>> THEN h
    ELSE CollectPasses(CollectFound(h, found, i, Head(passes)), Tail(passes),
                       found, Tick(i))

----------------------------------------------------------------------------
(* pidstat: ByCPUUsage and ByMemUsage *)

\* nanoseconds in a second
NS == 1000000000

\* seconds between two firings of the ticker: the Step of NewProcessStat
Step == 1

\* (*PerProcessStat).CPUUsage(), the two counters being set at every firing
CPUUsage(s) ==
    LET rate_ns == FAdd(ComputeRate(s.Metrics.UserTime, Step),
                        ComputeRate(s.Metrics.SystemTime, Step))
    IN  FMul(FDiv(rate_ns, Float(NS)), Float(100))

\* (*PerProcessStat).MemUsage()
MemUsage(s) == GaugeGet(s.Metrics.ResidentSize)

\* sort.Sort of a slice shorter than 12: insertionSort.  v has the keys of
\* the entities of the slice and u[k] is what Less compares (a[i] is less
\* than a[j] when u[a[i]] > u[a[j]]).  SiftLeft is the inner loop at index j.
\* the inner loop swaps nothing
SiftLeft_None(v, j, u) == v

RECURSIVE SiftLeft(_, _, _)
SiftLeft(v, j, u) ==
    IF j > 1 /\ FGt(u[v[j]], u[v[j - 1]])
    THEN SiftLeft([v EXCEPT ![j] = v[j - 1], ![j - 1] = v[j]], j - 1, u)
    ELSE v

RECURSIVE insertionSort(_, _, _)
insertionSort(v, i, u) ==
    IF i > Len(v) THEN v ELSE insertionSort(SiftLeft(v, i, u), i + 1, u)

\* ProcessStat.ByCPUUsage() and ProcessStat.ByMemUsage().  order is the
\* order in which range c.Processes visits the keys; the slice returned is
\* given by the keys of its entities.
ByUsage(h, order, call) ==
    LET u == [k \in DOMAIN h |-> IF call = "ByCPUUsage" THEN CPUUsage(h[k])
                                 ELSE MemUsage(h[k])]
        v == SelectSeq(order, LAMBDA k : ~IsNaN(u[k]))
    IN  insertionSort(v, 2, u)

\* a call of ByCPUUsage or of ByMemUsage
ProcessStat_By(call) ==
    /\ ~panicked
    /\ \E order \in { q \in [1 .. Cardinality(DOMAIN Processes) -> DOMAIN Processes] :
                        \A i, j \in DOMAIN q : q[i] = q[j] => i = j } :
         returned' = [call |-> call, v |-> ByUsage(Processes, order, call)]
    /\ UNCHANGED <<Processes, procPass, Cgroups, cgPass, FS, All, cpus,
                   panicked, ticker, inPass, cgroupStat, context>>

\* the registries ProcessStat.Collect builds in one pass and in two
ReaderRegistries ==
    LET Pass(h, i) == { RemoveDead(CollectTasks(MarkDead(h), tasks, FALSE)) :
                          tasks \in TaskArraysFrom(-1, i, MaxSorted) }
    IN  Pass(EmptyMap, 1) \cup UNION { Pass(h, 2) : h \in Pass(EmptyMap, 1) }

----------------------------------------------------------------------------
(* cpustat: CgroupStat *)

\* where the cpu cgroup hierarchy is mounted (NewCgroupStat looks it up)
Mountpoint == "/cgroup/cpu"

\* the i-th directory below the mountpoint
CgroupPath(i) == Mountpoint \o "/g" \o Itoa(i)

SeqToSet(q) == { q[i] : i \in 1 .. Len(q) }

\* a file that cannot be opened, and a file with the given lines
NoFile == [open |-> FALSE, lines |-> <<>>]

File(lines) == [open |-> TRUE, lines |-> lines]

\* misc.ReadUintFromFile(path): the first line, parsed; 0 when the file
\* cannot be opened or has no line
ReadUintFromFile(file) ==
    IF ~file.open THEN 0
    ELSE IF Len(file.lines) = 0 THEN 0
    ELSE ParseUint(file.lines[1])

\* the walk function of misc.FindCgroups on the directories i .. Len(dirs),
\* in the order of the walk: a directory whose tasks file is readable and
\* not empty is appended to cgroups
RECURSIVE WalkFrom(_, _)
WalkFrom(dirs, i) ==
    IF i > Len(dirs) THEN <<>>
    ELSE (IF dirs[i] = "tasks" THEN <<CgroupPath(i)>> ELSE <<>>)
         \o WalkFrom(dirs, i + 1)

\* misc.FindCgroups(mountpoint).  walk is what filepath.Walk meets at the
\* mountpoint itself: "ok", "unreadable" (its entries cannot be listed: the
\* walk function is called for the mountpoint only) or "vanished" (Lstat
\* fails: the walk function is called with a nil FileInfo, and f.IsDir()
\* panics).  dirs[i] is "tasks" when directory i exists and its tasks file is
\* readable and not empty.  The error returned is always nil.
FindCgroups(walk, dirs) ==
    [panic   |-> walk = "vanished",
     err     |-> FALSE,
     cgroups |-> IF walk # "ok" THEN <<>> ELSE WalkFrom(dirs, 1)]

\* NewPerCgroupStatMetrics(m, path, mp)
NewPerCgroupStatMetrics(path) ==
    [NrPeriods     |-> NewCounter,
     NrThrottled   |-> NewCounter,
     ThrottledTime |-> NewCounter,
     CfsPeriodUs   |-> NewGauge,
     CfsQuotaUs    |-> NewGauge,
     path          |-> path]

\* NewPerCgroupStat(m, path, mp).  created is history: the object was
\* constructed in the latest pass; registered has the names
\* NewPerCgroupStatMetrics registered.
NewPerCgroupStat(path) ==
    [Metrics    |-> NewPerCgroupStatMetrics(path),
     registered |-> InitializeMetrics(
                        DOMAIN NewPerCgroupStatMetrics(path) \ {"path"},
                        "cpustat.cgroup." \o Rel(Mountpoint, path), TRUE),
     created    |-> TRUE]

\* contents of a cgroup's cpu.stat
CpuStatA ==
    File(<<"nr_periods 10", "nr_throttled 2", "throttled_time 300">>)

CpuStatB ==
    File(<<"nr_periods 12", "nr_throttled 3", "throttled_time 450">>)

\* a value that is no unsigned decimal number
CpuStatBadValue ==
    File(<<"nr_periods 14", "nr_throttled x3", "throttled_time 500">>)

\* a line with a single field
CpuStatShortLine == File(<<"nr_periods 16", "nr_throttled">>)

\* regexp.MustCompile("\\s+").Split(line, 2) of the lines of cpu.stat
CpuStatFields ==
    [line \in SeqToSet(CpuStatA.lines \o CpuStatB.lines \o CpuStatBadValue.lines
                       \o CpuStatShortLine.lines) |-> RegexpSplit(line, 2)]

\* PerCgroupStatMetrics.Collect, the body of the loop over cpu.stat: f[1] is
\* read for the three known names, and is out of range on a line of one field
CollectCpuStatLine(r, line) ==
    LET f == CpuStatFields[line]
        known == At(f, 0) \in {"nr_periods", "nr_throttled", "throttled_time"}
    IN  IF r.panic THEN r
        ELSE IF known /\ ~InRange(f, 1) THEN [r EXCEPT !.panic = TRUE]
        ELSE IF At(f, 0) = "nr_periods"
             THEN [r EXCEPT !.s.NrPeriods = CounterSet(@, ParseUint(At(f, 1)))]
        ELSE IF At(f, 0) = "nr_throttled"
             THEN [r EXCEPT !.s.NrThrottled = CounterSet(@, ParseUint(At(f, 1)))]
        ELSE IF At(f, 0) = "throttled_time"
             THEN [r EXCEPT !.s.ThrottledTime = CounterSet(@, ParseUint(At(f, 1)))]
        ELSE r

RECURSIVE CollectCpuStatLines(_, _)
CollectCpuStatLines(r, lines) ==
    IF lines = <<>> THEN r
    ELSE CollectCpuStatLines(CollectCpuStatLine(r, Head(lines)), Tail(lines))

\* the second loop left out: nothing is ever removed
DeleteUndiscovered_Keep(h, cgroups) == h

\* PerCgroupStat.Quota()
Quota(s) ==
    FDiv(GaugeGet(s.Metrics.CfsQuotaUs), GaugeGet(s.Metrics.CfsPeriodUs))

\* CgroupStat.Collect, second loop: stop tracking the cgroups that are gone
DeleteUndiscovered(h, cgroups) ==
    Delete(h, {k \in DOMAIN h : \A i \in 1 .. Len(cgroups) : cgroups[i] # k})

\* history bookkeeping at the start of a pass
BeginCgroupPass(h) == [k \in DOMAIN h |-> [h[k] EXCEPT !.created = FALSE]]

\* the history of the cgroup collector: whether a pass has returned, and
\* what the latest pass that returned had discovered
NoCgPass == [passed |-> FALSE, discovered |-> {}]

\* the files of a cgroup a pass has not read
NoFiles == [stat |-> NoFile, period |-> NoFile, quota |-> NoFile]

\* the contents /proc/mounts can have
ProcMounts ==
    { NoFile,
      File(<<>>),
      File(<<"proc /proc proc rw 0 0">>),
      File(<<"cgroup /cgroup/cpuacct cgroup rw,cpuacct 0 0">>),
      File(<<"cgroup /cgroup/cpu cgroup rw,cpu 0 0">>),
      File(<<"cgroup /cgroup/mem cgroup rw,memory 0 0",
             "cgroup /cgroup/cpu cgroup rw,relatime,cpu 0 0">>),
      File(<<"rootfs">>) }

\* the mount point of the first line, whatever is mounted there
FindCgroupMount_First(lines, subsystem) ==
    IF lines = <<>> THEN [mountpoint |-> "", err |-> TRUE, panic |-> FALSE]
    ELSE [mountpoint |-> At(RegexpSplit(Head(lines), 6), 1), err |-> FALSE,
          panic |-> FALSE]

\* misc.FindCgroupMount(subsystem) as a function of the lines of
\* /proc/mounts; a line of fewer than three fields makes f[2] panic
RECURSIVE FindCgroupMount(_, _)
FindCgroupMount(lines, subsystem) ==
    IF lines = <<>> THEN [mountpoint |-> "", err |-> TRUE, panic |-> FALSE]
    ELSE LET f == RegexpSplit(Head(lines), 6)
         IN  IF ~InRange(f, 2)
             THEN [mountpoint |-> "", err |-> FALSE, panic |-> TRUE]
             ELSE IF At(f, 2) = "cgroup" /\ ~InRange(f, 3)
             THEN [mountpoint |-> "", err |-> FALSE, panic |-> TRUE]
             ELSE IF At(f, 2) = "cgroup"
                     /\ subsystem \in SeqToSet(StringsSplit(At(f, 3), ","))
             THEN [mountpoint |-> At(f, 1), err |-> FALSE, panic |-> FALSE]
             ELSE FindCgroupMount(Tail(lines), subsystem)

\* NewCgroupStat(m, Step): the mountpoint is looked up, and the ticker is
\* started when it is found.  read is history: the /proc/mounts it read.
NewCgroupStat ==
    /\ ~panicked
    /\ ~cgroupStat.made
    /\ \E mounts \in ProcMounts :
         LET found == IF mounts.open THEN FindCgroupMount(mounts.lines, "cpu")
                      ELSE [mountpoint |-> "", err |-> TRUE, panic |-> FALSE]
         IN  /\ panicked' = found.panic
             /\ cgroupStat' = IF found.panic THEN cgroupStat
                              ELSE [made |-> TRUE, Mountpoint |-> found.mountpoint,
                                    ticker |-> ~found.err, read |-> mounts]
    /\ UNCHANGED <<Processes, procPass, Cgroups, cgPass, FS, All, cpus,
                   ticker, returned, inPass, context>>

----------------------------------------------------------------------------
(* fsstat: FSStat *)

\* FSStat is the one of package fsstat in cpustat_linux.go.  The other source
\* of the package (marking the entities as not mounted and removing those
\* that stay so) has a last loop that is not Go, `if ! os.IsMounted {
\* delete s.FS[name] }`: no program is built from it.

\* struct statfs of a mount point: the i-th answer of the kernel
StatfsBuf(mp, i) ==
    [Bsize  |-> 4096,
     Blocks |-> 1000,
     Bfree  |-> IF i = 1 THEN 250 ELSE 100,
     Bavail |-> IF i = 1 THEN 200 ELSE 80,
     Files  |-> 100 * Len(mp),
     Ffree  |-> IF i = 1 THEN 40 ELSE 10]

\* what syscall.Statfs answers: "fail", or the number of a buffer
StatfsAnswers == {0, 1, 2}

\* NewPerFSStat(m, mp).  created is history: the object was constructed in
\* the latest pass.
NewPerFSStat(mp) ==
    [Metrics   |-> [Bsize |-> NewGauge, Blocks |-> NewGauge, Bfree |-> NewGauge,
                    Bavail |-> NewGauge, Files |-> NewGauge, Ffree |-> NewGauge],
     registered |-> InitializeMetrics(
                        {"Bsize", "Blocks", "Bfree", "Bavail", "Files", "Ffree"},
                        "fsstat." \o mp, TRUE),
     mp        |-> mp,
     created   |-> TRUE]

\* PerFSStat.Collect(): answer is 0 when statfs fails
PerFSStat_Collect(s, answer) ==
    IF answer = 0 THEN s
    ELSE LET buf == StatfsBuf(s.mp, answer)
         IN  [s EXCEPT !.Metrics =
                [Bsize  |-> GaugeSet(@.Bsize, Float(buf.Bsize)),
                 Blocks |-> GaugeSet(@.Blocks, Float(buf.Blocks)),
                 Bfree  |-> GaugeSet(@.Bfree, Float(buf.Bfree)),
                 Bavail |-> GaugeSet(@.Bavail, Float(buf.Bavail)),
                 Files  |-> GaugeSet(@.Files, Float(buf.Files)),
                 Ffree  |-> GaugeSet(@.Ffree, Float(buf.Ffree))]]

\* a - b of two float64
FSub(a, b) == FAdd(a, FMul(b, Float(-1)))

\* the share of the free blocks instead of the used ones
PerFSStat_Usage_Free(s) ==
    FMul(FDiv(s.Metrics.Bfree, s.Metrics.Blocks), Float(100))

\* (*PerFSStat).Usage()
PerFSStat_Usage(s) ==
    LET total == GaugeGet(s.Metrics.Blocks)
        free  == GaugeGet(s.Metrics.Bfree)
    IN  FMul(FDiv(FSub(total, free), total), Float(100))

\* (*PerFSStat).FileUsage()
PerFSStat_FileUsage(s) ==
    LET total == GaugeGet(s.Metrics.Files)
        free  == GaugeGet(s.Metrics.Ffree)
    IN  FMul(FDiv(FSub(total, free), total), Float(100))

ExcludedDevices == {"proc", "sysfs", "devpts", "none", "sunrpc"}

ExcludedMounts == {"swap", "bind", "ignore", "none"}

\* FSStat.Collect, the body of the loop over the lines of /etc/mtab, up to
\* o.Collect(): the record is split, the excluded ones are skipped and the
\* entity of the mount point is constructed when it is not tracked.  pending
\* tells that o.Collect() is to be called, for the entity of mp.
ScanMount(r, line) ==
    LET f == StringsSplit(line, " ")
    IN  IF r.panic THEN r
        ELSE IF At(f, 0) \in ExcludedDevices THEN r
        ELSE IF ~InRange(f, 3) THEN [r EXCEPT !.panic = TRUE]
        ELSE IF At(f, 3) \in ExcludedMounts THEN r
        ELSE LET mp == At(f, 1)
             IN  [r EXCEPT !.h = IF mp \in DOMAIN r.h THEN r.h
                                 ELSE Put(r.h, mp, NewPerFSStat(mp)),
                           !.pending = TRUE,
                           !.mp = mp]

\* history bookkeeping at the start of a pass
BeginFSPass(h) == [k \in DOMAIN h |-> [h[k] EXCEPT !.created = FALSE]]

\* the mount points of the records of /etc/mtab that are not excluded
RECURSIVE MountPointsOf(_)
MountPointsOf(lines) ==
    IF lines = <<>> THEN {}
    ELSE LET f == StringsSplit(Head(lines), " ")
         IN  (IF At(f, 0) \notin ExcludedDevices /\ InRange(f, 3)
                 /\ At(f, 3) \notin ExcludedMounts
              THEN {At(f, 1)} ELSE {})
             \cup MountPointsOf(Tail(lines))

\* lines of /etc/mtab
MtabLines ==
    { "/dev/sda1 / ext4 rw 0 0",
      "proc /proc proc rw 0 0",
      "/dev/sdc1 /mnt ext4 rw 0 0",
      "/dev/sdc1 /mnt ext4 bind 0 0",
      "/dev/sdd1 /data",
      "" }

\* number of lines of /etc/mtab
MaxMtabLines == 2

RECURSIVE SeqsUpTo(_, _)
SeqsUpTo(S, n) ==
    IF n = 0 THEN {<<>>}
    ELSE SeqsUpTo(S, n - 1)
         \cup { Append(q, x) : q \in { r \in SeqsUpTo(S, n - 1) : Len(r) = n - 1 },
                               x \in S }

----------------------------------------------------------------------------
(* cpustat: CPUStat *)

\* the counters of a PerCPU in the order of the fields 1..9 of a cpu line
CPUFields ==
    <<"User", "UserLowPrio", "System", "Idle", "Iowait", "Irq", "Softirq",
      "Steal", "Guest">>

\* longest time between two passes, in steps of the ticker
MaxElapsed == 2

\* longest time, in steps of the ticker, between two Sets of the counters of
\* a PerCPU
MaxSince == 2

\* NewPerCPU(m, name).  since is the time since the counters were last set
\* and dt the time between their last two Sets (the metrics library keeps
\* the time of the last Set inside each counter; parseCPUline sets all the
\* counters of a PerCPU together), created is history.
NewPerCPU(name) ==
    [User |-> NewCounter, UserLowPrio |-> NewCounter, System |-> NewCounter,
     Idle |-> NewCounter, Iowait |-> NewCounter, Irq |-> NewCounter,
     Softirq |-> NewCounter, Steal |-> NewCounter, Guest |-> NewCounter,
     Total |-> NewCounter,
     UserspacePct |-> NewGauge, KernelPct |-> NewGauge, UsagePct |-> NewGauge,
     registered |-> InitializeMetrics(
                        {"User", "UserLowPrio", "System", "Idle", "Iowait", "Irq",
                         "Softirq", "Steal", "Guest", "Total", "UserspacePct",
                         "KernelPct", "UsagePct"},
                        "cpustat." \o name, TRUE),
     since |-> 0, dt |-> 0, created |-> TRUE]

\* Usage without its guard
Usage_Unguarded(o, dt) ==
    FMul(FDiv(FAdd(FAdd(ComputeRate(o.User, dt), ComputeRate(o.System, dt)),
                   ComputeRate(o.UserLowPrio, dt)),
              ComputeRate(o.Total, dt)), Float(100))

\* (*PerCPU).Usage(), dt being the time between the last two Sets
Usage(o, dt) ==
    LET u == ComputeRate(o.User, dt)
        n == ComputeRate(o.UserLowPrio, dt)
        s == ComputeRate(o.System, dt)
        t == ComputeRate(o.Total, dt)
    IN  IF FNe(u, NaN) /\ FNe(n, NaN) /\ FNe(s, NaN) /\ FNe(t, NaN)
           /\ FGt(t, Float(0))
        THEN FMul(FDiv(FAdd(FAdd(u, s), n), t), Float(100))
        ELSE NaN

\* (*PerCPU).UserSpace()
UserSpace(o, dt) ==
    LET u == ComputeRate(o.User, dt)
        n == ComputeRate(o.UserLowPrio, dt)
        t == ComputeRate(o.Total, dt)
    IN  IF FNe(u, NaN) /\ FNe(t, NaN) /\ FNe(n, NaN) /\ FGt(t, Float(0))
        THEN FMul(FDiv(FAdd(u, n), t), Float(100))
        ELSE NaN

\* (*PerCPU).Kernel()
Kernel(o, dt) ==
    LET s == ComputeRate(o.System, dt)
        t == ComputeRate(o.Total, dt)
    IN  IF FNe(s, NaN) /\ FNe(t, NaN) /\ FGt(t, Float(0))
        THEN FMul(FDiv(s, t), Float(100))
        ELSE NaN

\* parseCPUline(s, f), the Sets of the fields 1 .. j of the line: they are
\* made in order, up to the first field that f does not have
RECURSIVE SetCPUFields(_, _, _)
SetCPUFields(s, f, j) ==
    IF j = 0 THEN s
    ELSE LET s1 == SetCPUFields(s, f, j - 1)
         IN  IF ~InRange(f, j) THEN s1
             ELSE [s1 EXCEPT ![CPUFields[j]] = CounterSet(@, ParseUint(At(f, j)))]

\* parseCPUline(s, f): indexing f beyond its length is a run-time panic,
\* which leaves the counters set before it
parseCPUline(s, f) ==
    LET s9 == SetCPUFields(s, f, 9)
    IN  IF ~InRange(f, 9) THEN [s |-> s9, panic |-> TRUE]
        ELSE [s |-> [s9 EXCEPT
                       !.Total = CounterSet(@, CounterGet(s9.User)
                                     + CounterGet(s9.UserLowPrio)
                                     + CounterGet(s9.System) + CounterGet(s9.Idle)),
                       !.dt    = s.since,
                       !.since = 0],
              panic |-> FALSE]

\* the gauges left as they were
populateComputedStats_Stale(s) == s

\* populateComputedStats(s)
populateComputedStats(s) ==
    [s EXCEPT !.UserspacePct = GaugeSet(@, UserSpace(s, s.dt)),
              !.KernelPct    = GaugeSet(@, Kernel(s, s.dt)),
              !.UsagePct     = GaugeSet(@, Usage(s, s.dt))]

\* parseCPUline followed by populateComputedStats, as Collect calls them
ParseAndPopulate(o, f) ==
    LET r == parseCPUline(o, f)
    IN  IF r.panic THEN r ELSE [r EXCEPT !.s = populateComputedStats(@)]

\* regexp.MatchString("^cpu\\d*", s)
IsCPU(s) == HasPrefix(s, "cpu")

\* lines of /proc/stat
StatLines ==
    { "cpu 100 0 50 850 0 0 0 0 0",
      "cpu  200 0 100 1700 0 0 0 0 0",
      "cpu 200 0 100 1700",
      "cpu0 60 0 30 400 0 0 0 0 0",
      "cpu0 x 0 40 500 0 0 0 0 0",
      "intr 12345" }

\* number of lines of /proc/stat
MaxStatLines == 2

\* regexp.MustCompile("\\s+").Split(line, -1) of the lines of /proc/stat
StatFields == [line \in StatLines |-> RegexpSplit(line, -1)]

\* every line starts the registry afresh
CollectStatLine_Fresh(r, line) == [r EXCEPT !.cpus = EmptyMap]

\* CPUStat.Collect, the body of the loop over the lines of /proc/stat
CollectStatLine(r, line) ==
    LET f == StatFields[line]
    IN  IF r.panic \/ ~IsCPU(At(f, 0)) THEN r
        ELSE IF At(f, 0) = "cpu"
        THEN LET q == ParseAndPopulate(r.All, f)
             IN  [r EXCEPT !.All = q.s, !.panic = q.panic]
        ELSE LET ok == At(f, 0) \in DOMAIN r.cpus
                 perCPU == IF ok THEN r.cpus[At(f, 0)] ELSE NewPerCPU(At(f, 0))
                 q == ParseAndPopulate(perCPU, f)
             IN  [r EXCEPT !.cpus = Put(@, At(f, 0), q.s), !.panic = q.panic]

\* the passing of elapsed steps of the ticker before a pass
Elapse(o, elapsed) ==
    [o EXCEPT !.created = FALSE, !.since = @ + elapsed]

\* the <<name, counter>> of the fields of cpu lines that are not unsigned
\* decimal numbers
RECURSIVE BadFields(_)
BadFields(lines) ==
    IF lines = <<>> THEN {}
    ELSE LET f == StatFields[Head(lines)]
         IN  (IF IsCPU(At(f, 0))
              THEN { <<At(f, 0), CPUFields[i]>> :
                       i \in { j \in 1 .. 9 : InRange(f, j) /\ ParseUintFails(At(f, j)) } }
              ELSE {})
             \cup BadFields(Tail(lines))

\* the names of the cpu lines
CPUNames(lines) ==
    { At(StatFields[lines[i]], 0) :
        i \in { j \in 1 .. Len(lines) : IsCPU(At(StatFields[lines[j]], 0)) } }

\* /proc/stat names a cpu once
DistinctNames(lines) ==
    \A i, j \in 1 .. Len(lines) :
        (i # j /\ IsCPU(At(StatFields[lines[i]], 0)))
            => At(StatFields[lines[i]], 0) # At(StatFields[lines[j]], 0)

\* what opening /proc/stat can give: no file, or its lines
StatFiles ==
    {NoFile}
    \cup { File(q) : q \in { l \in SeqsUpTo(StatLines, MaxStatLines) : DistinctNames(l) } }

\* CPUStat.PerCPUStat(cpu): the entity of the map, nil for a missing key
PerCPUStat(h, cpu) == IF cpu \in DOMAIN h THEN h[cpu] ELSE [nil |-> TRUE]

\* CPUStat.CPUS(): ret is made with one element, the empty string, and the
\* keys are appended to it in the order range s.cpus visits them
CPUStat_CPUS ==
    /\ ~panicked
    /\ \E order \in { q \in [1 .. Cardinality(DOMAIN cpus) -> DOMAIN cpus] :
                        \A i, j \in DOMAIN q : q[i] = q[j] => i = j } :
         returned' = [call |-> "CPUS", v |-> <<"">> \o order]
    /\ UNCHANGED <<Processes, procPass, Cgroups, cgPass, FS, All, cpus,
                   panicked, ticker, inPass, cgroupStat, context>>

----------------------------------------------------------------------------
(* cpustat (Darwin): CPUStat *)

\* PerCPUNew(m, cpu): the five counters of the Darwin PerCPU, registered
\* under "cpustat.cpu" whatever cpu is; there are no gauges and no map of
\* the single CPUs
PerCPUNew(cpu) ==
    [User |-> NewCounter, UserLowPrio |-> NewCounter, System |-> NewCounter,
     Idle |-> NewCounter, Total |-> NewCounter,
     registered |-> InitializeMetrics(
                        {"User", "UserLowPrio", "System", "Idle", "Total"},
                        "cpustat.cpu", TRUE),
     since |-> 0, dt |-> 0]

\* cpu_ticks of host_cpu_load_info, indexed by CPU_STATE_USER,
\* CPU_STATE_SYSTEM, CPU_STATE_IDLE and CPU_STATE_NICE
HostCpuLoads ==
    { [user |-> 100, system |-> 50, idle |-> 850, nice |-> 0],
      [user |-> 200, system |-> 100, idle |-> 1700, nice |-> 5],
      [user |-> 300, system |-> 100, idle |-> 2500, nice |-> 5] }

\* (*CPUStat).Collect() of the Darwin collector: nothing is set when
\* host_statistics fails
CPUStat_Collect_Darwin ==
    /\ ~panicked
    /\ \E ret \in KernReturn, cpuinfo \in HostCpuLoads, elapsed \in 1 .. MaxElapsed :
         LET o == [All EXCEPT !.since = @ + elapsed]
         IN  /\ o.since <= MaxSince
             /\ All' = IF ret # KERN_SUCCESS THEN o
                       ELSE [o EXCEPT
                               !.User        = CounterSet(@, cpuinfo.user),
                               !.UserLowPrio = CounterSet(@, cpuinfo.nice),
                               !.System      = CounterSet(@, cpuinfo.system),
                               !.Idle        = CounterSet(@, cpuinfo.idle),
                               !.Total       = CounterSet(@, cpuinfo.user
                                                   + cpuinfo.system + cpuinfo.nice
                                                   + cpuinfo.idle),
                               !.dt          = o.since,
                               !.since       = 0]
    /\ UNCHANGED <<Processes, procPass, Cgroups, cgPass, FS, cpus,
                   panicked, ticker, returned, inPass, cgroupStat,
                   context>>

----------------------------------------------------------------------------
(* cpustat: PerCgroupStat with the CPU times of the cgroup's processes *)

\* sysconf(_SC_CLK_TCK)
LINUX_TICKS_IN_SEC == 100

\* number of processes listed in cgroup.procs
MaxProcs == 2

\* NewPerCgroupStat(m, path, mp) of the collector that also reads the CPU
\* times: misc.InitializeMetrics allocates and registers the ten metrics;
\* since and dt are the times of the Sets of Utime and Stime, as in a PerCPU
NewPerCgroupStatTimes(path) ==
    [Nr_periods     |-> NewCounter,
     Nr_throttled   |-> NewCounter,
     Throttled_time |-> NewCounter,
     Cfs_period_us  |-> NewGauge,
     Cfs_quota_us   |-> NewGauge,
     Utime          |-> NewCounter,
     Stime          |-> NewCounter,
     UsagePct       |-> NewGauge,
     UserspacePct   |-> NewGauge,
     KernelPct      |-> NewGauge,
     registered     |-> InitializeMetrics(
                            {"Nr_periods", "Nr_throttled", "Throttled_time",
                             "Cfs_period_us", "Cfs_quota_us", "Utime", "Stime",
                             "UsagePct", "UserspacePct", "KernelPct"},
                            "cpustat.cgroup." \o Rel(Mountpoint, path), TRUE),
     path |-> path,
     since |-> 0, dt |-> 0]

\* (*PerCgroupStat).Usage()
CgroupUsage(s) ==
    FDiv(FMul(FAdd(ComputeRate(s.Utime, s.dt), ComputeRate(s.Stime, s.dt)),
              Float(100)), Float(LINUX_TICKS_IN_SEC))

\* (*PerCgroupStat).Userspace()
CgroupUserspace(s) ==
    FDiv(FMul(ComputeRate(s.Utime, s.dt), Float(100)), Float(LINUX_TICKS_IN_SEC))

\* (*PerCgroupStat).Kernel(): the rate it reads is that of Utime
CgroupKernel(s) ==
    FDiv(FMul(ComputeRate(s.Utime, s.dt), Float(100)), Float(LINUX_TICKS_IN_SEC))

\* /proc/<pid>/stat of a process whose user and system times are 100 and 40
\* ticks, one whose line stops after the user time, and one whose line
\* stops after the state
ProcStatA == File(<<"1 (a) S 0 1 1 0 -1 0 0 0 0 0 100 40 0 0">>)

ProcStatNoSystem == File(<<"1 (a) S 0 1 1 0 -1 0 0 0 0 0 100">>)

ProcStatShortLine == File(<<"1 (a) S">>)

\* strings.Split(line, " ") of the lines of /proc/<pid>/stat
ProcStatFields ==
    [line \in SeqToSet(ProcStatA.lines \o ProcStatNoSystem.lines
                       \o ProcStatShortLine.lines) |-> StringsSplit(line, " ")]

\* getCPUTimes(pid), the body of the loop over the lines of the stat file:
\* f[13] and f[14] are read, and are out of range on a line of fewer fields
getCPUTimesLine(r, line) ==
    LET f == ProcStatFields[line]
    IN  IF r.panic THEN r
        ELSE IF ~InRange(f, 13) \/ ~InRange(f, 14) THEN [r EXCEPT !.panic = TRUE]
        ELSE [user |-> ParseUint(At(f, 13)), system |-> ParseUint(At(f, 14)),
              panic |-> FALSE]

RECURSIVE getCPUTimesLines(_, _)
getCPUTimesLines(r, lines) ==
    IF lines = <<>> THEN r
    ELSE getCPUTimesLines(getCPUTimesLine(r, Head(lines)), Tail(lines))

\* getCPUTimes(pid): 0 and 0 when the stat file cannot be opened, the
\* times of its last line otherwise
getCPUTimes(file) ==
    IF ~file.open THEN [user |-> 0, system |-> 0, panic |-> FALSE]
    ELSE getCPUTimesLines([user |-> 0, system |-> 0, panic |-> FALSE], file.lines)

\* getCgroupCPUTimes(), its last two statements: Utime and Stime are set to
\* the times added up over the processes of cgroup.procs
getCgroupCPUTimes(s, utime, stime) ==
    [s EXCEPT !.Utime = CounterSet(@, utime),
              !.Stime = CounterSet(@, stime),
              !.dt = s.since, !.since = 0]

\* (*PerCgroupStat).Collect(), the body of the loop over cpu.stat: f[1] is
\* read for the three known names, and is out of range on a line of one field
PerCgroupStat_CollectLine(r, line) ==
    LET f == CpuStatFields[line]
        known == At(f, 0) \in {"nr_periods", "nr_throttled", "throttled_time"}
    IN  IF r.panic THEN r
        ELSE IF known /\ ~InRange(f, 1) THEN [r EXCEPT !.panic = TRUE]
        ELSE IF At(f, 0) = "nr_periods"
             THEN [r EXCEPT !.s.Nr_periods = CounterSet(@, ParseUint(At(f, 1)))]
        ELSE IF At(f, 0) = "nr_throttled"
             THEN [r EXCEPT !.s.Nr_throttled = CounterSet(@, ParseUint(At(f, 1)))]
        ELSE IF At(f, 0) = "throttled_time"
             THEN [r EXCEPT !.s.Throttled_time = CounterSet(@, ParseUint(At(f, 1)))]
        ELSE r

\* (*PerCgroupStat).Collect(), the loop over cpu.stat: a panic leaves what
\* was set before it
RECURSIVE PerCgroupStat_CollectLines(_, _)
PerCgroupStat_CollectLines(r, lines) ==
    IF lines = <<>> THEN r
    ELSE PerCgroupStat_CollectLines(PerCgroupStat_CollectLine(r, Head(lines)),
                                    Tail(lines))

\* (*PerCgroupStat).Collect(), its last three statements: the three
\* computed gauges are set
PerCgroupStat_CollectPcts(s) ==
    [s EXCEPT !.UsagePct = GaugeSet(@, CgroupUsage(s)),
              !.UserspacePct = GaugeSet(@, CgroupUserspace(s)),
              !.KernelPct = GaugeSet(@, CgroupKernel(s))]

----------------------------------------------------------------------------
(* The goroutines of the collectors, a pass being made of its steps *)

\* Each collector runs its passes in the goroutine of its ticker, and nothing
\* orders the steps of a pass with the other goroutines of the program.  A
\* step below is what a pass writes between two of the calls it makes out
\* of Go (cgo, system calls), together with what the call it waited for has
\* answered.  inPass has, for each collector, the calls of Collect in
\* progress with the position each has reached; the other fields of a call
\* are history: the registry it was called on and what it has read so far.

\* The answers the steps can get.  A set of answers is a definition of its
\* own wherever a specification gives one to a step.

\* the task arrays processor_set_tasks can return
AllTaskLists == TaskLists(MaxPid)

\* no task, or the task of process 1
FewTaskLists == {<<>>, <<1>>}

\* what a directory below the mountpoint can be: no directory, a cgroup with
\* an empty or unreadable tasks file, a cgroup with tasks
DirKinds == {"none", "notasks", "tasks"}

\* no directory, or a cgroup with tasks
FewDirKinds == {"none", "tasks"}

\* the contents cpu.stat, cpu.cfs_period_us and cpu.cfs_quota_us can have
CpuStatFiles == {NoFile, CpuStatA, CpuStatB}

AllCpuStatFiles == {NoFile, CpuStatA, CpuStatB, CpuStatBadValue, CpuStatShortLine}

FewCpuStatFiles == {NoFile, CpuStatA}

TimesCpuStatFiles == {NoFile, CpuStatA, CpuStatShortLine}

PeriodFiles == {NoFile, File(<<"100000">>)}

AllPeriodFiles == {NoFile, File(<<>>), File(<<"100000">>), File(<<"50000">>)}

QuotaFiles == {NoFile, File(<<"200000">>), File(<<"-1">>)}

AllQuotaFiles == {NoFile, File(<<>>), File(<<"200000">>), File(<<"-1">>)}

\* what /proc/<pid>/stat of a process of a cgroup holds
ProcStatFiles == {NoFile, ProcStatA, ProcStatNoSystem, ProcStatShortLine}

\* statfs succeeds with one of two answers
FewStatfsAnswers == {0, 1}

\* the counters read from cpu.stat, and the counters whose rates Usage and
\* UserSpace add up
CpuStatCounters == {"NrPeriods", "NrThrottled", "ThrottledTime"}

UsageCounters == {"User", "UserLowPrio", "System"}

UserspaceCounters == {"User", "UserLowPrio"}

\* the goroutine of collector c always receives from its ticker
AtTicker_Always(c) == TRUE

\* for _ = range ticker.C { c.Collect() }: the goroutine of collector c
\* receives from its ticker when the Collect it called has returned
AtTicker(c) == inPass[c] = <<>>

\* the call number i of collector c returns
Return(c, i) ==
    [inPass EXCEPT ![c] = SubSeq(@, 1, i - 1) \o SubSeq(@, i + 1, Len(@))]

\* ProcessStat.Collect(collectAttributes) is called on the registry h, the
\* pass before having ended with failed: its first loop being over, the
\* call is in processor_set_default.  History: before is h, prev is failed,
\* discovered has the pids pid_for_task gave, infoFailed those for which a
\* task_info failed and sysctlFailed those for which sysctl failed.
ProcessCall(collectAttributes, h, failed) ==
    [attrs |-> collectAttributes, at |-> "enum", tasks |-> <<>>,
     before |-> h, prev |-> failed, discovered |-> {}, infoFailed |-> {},
     sysctlFailed |-> {}]

\* ProcessStat.Collect(collectAttributes) is called: the first loop marks
\* every entity dead, and processor_set_default is next
ProcessStat_Collect_Mark(Attrs) ==
    /\ ~panicked
    /\ AtTicker("pidstat")
    /\ \E collectAttributes \in Attrs :
         /\ Processes' = MarkDead(Processes)
         /\ inPass' = [inPass EXCEPT !.pidstat =
                          Append(@, ProcessCall(collectAttributes, Processes,
                                                procPass.failed))]
    /\ UNCHANGED <<procPass, Cgroups, cgPass, FS, All, cpus, panicked, ticker,
                   returned, cgroupStat, context>>

\* ProcessStat.Collect: processor_set_default, host_processor_set_priv and
\* processor_set_tasks have answered.  The call returns when one of them
\* fails; otherwise the loop over the task array starts.  Lists has the
\* task arrays and Failing the calls that can fail; the kernel clock stops
\* at maxClock.
ProcessStat_Collect_Enum(Lists, Failing, maxClock) ==
    /\ ~panicked
    /\ \E i \in DOMAIN inPass.pidstat, failed \in {"none"} \cup Failing,
          tasks \in Lists :
         LET call == inPass.pidstat[i]
         IN  /\ call.at = "enum"
             /\ failed # "none" => tasks = <<>>
             /\ procPass' = [clock |-> TickTo(procPass.clock, maxClock),
                             failed |-> failed]
             /\ inPass' = IF failed # "none" THEN Return("pidstat", i)
                          ELSE [inPass EXCEPT !.pidstat[i] =
                                   [call EXCEPT !.tasks = tasks, !.at = "task"]]
    /\ UNCHANGED <<Processes, Cgroups, cgPass, FS, All, cpus, panicked, ticker,
                   returned, cgroupStat, context>>

\* ProcessStat.Collect, a turn of the loop up to its next call: pid_for_task
\* and task_info(MACH_TASK_BASIC_INFO) have answered, each with one of
\* Answers.  The turn is over when one of them fails or the pid is
\* negative; a pid that is not tracked gets its entity, and
\* get_process_info is next, as it is for a tracked pid when
\* collectAttributes is set; otherwise the gauges are set, and the second
\* task_info is next.
ProcessStat_Collect_Task(Answers) ==
    /\ ~panicked
    /\ \E i \in DOMAIN inPass.pidstat, pid_kr \in Answers, basic_kr \in Answers :
         LET call == inPass.pidstat[i]
             pid  == Head(call.tasks)
             spid == Itoa(pid)
             t    == [pid |-> pid, info |-> procPass.clock]
             seen == [call EXCEPT !.discovered = @ \cup {spid}]
         IN  /\ call.at = "task"
             /\ call.tasks # <<>>
             /\ IF pid_kr # KERN_SUCCESS \/ pid < 0
                THEN /\ Processes' = Processes
                     /\ inPass' = [inPass EXCEPT !.pidstat[i].tasks = Tail(@)]
                ELSE IF basic_kr # KERN_SUCCESS
                THEN /\ Processes' = Processes
                     /\ inPass' = [inPass EXCEPT !.pidstat[i] =
                                      [seen EXCEPT !.tasks = Tail(@),
                                                   !.infoFailed = @ \cup {spid}]]
                ELSE IF spid \notin DOMAIN Processes
                THEN /\ Processes' = InsertTask(Processes, t)
                     /\ inPass' = [inPass EXCEPT !.pidstat[i] =
                                      [seen EXCEPT !.at = "sysctl"]]
                ELSE IF call.attrs
                THEN /\ Processes' = Processes
                     /\ inPass' = [inPass EXCEPT !.pidstat[i] =
                                      [seen EXCEPT !.at = "sysctl"]]
                ELSE /\ Processes' = [Processes EXCEPT ![spid] = SetSizes(@, t)]
                     /\ inPass' = [inPass EXCEPT !.pidstat[i] =
                                      [seen EXCEPT !.at = "task_info"]]
    /\ UNCHANGED <<procPass, Cgroups, cgPass, FS, All, cpus, panicked, ticker,
                   returned, cgroupStat, context>>

\* CollectAttributes: get_process_info has returned, sysctl having answered
\* one of Sysctls; comm and Uid are assigned and the user is looked up
ProcessStat_Collect_Kinfo(Sysctls) ==
    /\ ~panicked
    /\ \E i \in DOMAIN inPass.pidstat, ret \in Sysctls :
         LET call == inPass.pidstat[i]
             pid  == Head(call.tasks)
         IN  /\ call.at = "sysctl"
             /\ Processes' = [Processes EXCEPT ![Itoa(pid)] = SetKinfo(@, pid, ret)]
             /\ inPass' = [inPass EXCEPT !.pidstat[i] =
                              [call EXCEPT !.at = "lookup",
                                           !.sysctlFailed =
                                               IF ret # 0 THEN @ \cup {Itoa(pid)}
                                               ELSE @]]
    /\ UNCHANGED <<procPass, Cgroups, cgPass, FS, All, cpus, panicked, ticker,
                   returned, cgroupStat, context>>

\* CollectAttributes: user.LookupId has returned; user is assigned, then the
\* gauges are set, and the second task_info is next
ProcessStat_Collect_User ==
    /\ ~panicked
    /\ \E i \in DOMAIN inPass.pidstat :
         LET call == inPass.pidstat[i]
             pid  == Head(call.tasks)
             t    == [pid |-> pid, info |-> procPass.clock]
         IN  /\ call.at = "lookup"
             /\ Processes' = [Processes EXCEPT ![Itoa(pid)] =
                                 SetSizes(SetUser(@), t)]
             /\ inPass' = [inPass EXCEPT !.pidstat[i].at = "task_info"]
    /\ UNCHANGED <<procPass, Cgroups, cgPass, FS, All, cpus, panicked, ticker,
                   returned, cgroupStat, context>>

\* ProcessStat.Collect: task_info(TASK_ABSOLUTETIME_INFO) has answered one
\* of Answers.  On a failure the turn is over; otherwise absolute_to_nano
\* has converted total_user, UserTime is set, and absolute_to_nano is
\* called for total_system.
ProcessStat_Collect_UserTime(Answers) ==
    /\ ~panicked
    /\ \E i \in DOMAIN inPass.pidstat, abs_kr \in Answers :
         LET call == inPass.pidstat[i]
             pid  == Head(call.tasks)
             t    == [pid |-> pid, info |-> procPass.clock]
         IN  /\ call.at = "task_info"
             /\ IF abs_kr # KERN_SUCCESS
                THEN /\ Processes' = Processes
                     /\ inPass' = [inPass EXCEPT !.pidstat[i] =
                                      [call EXCEPT !.tasks = Tail(@),
                                                   !.at = "task",
                                                   !.infoFailed = @ \cup {Itoa(pid)}]]
                ELSE /\ Processes' = [Processes EXCEPT ![Itoa(pid)] =
                                         SetUserTime(@, t)]
                     /\ inPass' = [inPass EXCEPT !.pidstat[i].at =
                                      "absolute_to_nano"]
    /\ UNCHANGED <<procPass, Cgroups, cgPass, FS, All, cpus, panicked, ticker,
                   returned, cgroupStat, context>>

\* ProcessStat.Collect, the end of a turn: absolute_to_nano has converted
\* total_system, SystemTime is set and the entity is not dead
ProcessStat_Collect_SystemTime ==
    /\ ~panicked
    /\ \E i \in DOMAIN inPass.pidstat :
         LET call == inPass.pidstat[i]
             pid  == Head(call.tasks)
             t    == [pid |-> pid, info |-> procPass.clock]
         IN  /\ call.at = "absolute_to_nano"
             /\ Processes' = [Processes EXCEPT ![Itoa(pid)] = SetSystemTime(@, t)]
             /\ inPass' = [inPass EXCEPT !.pidstat[i] =
                              [call EXCEPT !.tasks = Tail(@), !.at = "task"]]
    /\ UNCHANGED <<procPass, Cgroups, cgPass, FS, All, cpus, panicked, ticker,
                   returned, cgroupStat, context>>

\* ProcessStat.Collect: the last loop removes the dead, then the call
\* returns
ProcessStat_Collect_Sweep ==
    /\ ~panicked
    /\ \E i \in DOMAIN inPass.pidstat :
         /\ inPass.pidstat[i].at = "task"
         /\ inPass.pidstat[i].tasks = <<>>
         /\ Processes' = RemoveDead(Processes)
         /\ inPass' = Return("pidstat", i)
    /\ UNCHANGED <<procPass, Cgroups, cgPass, FS, All, cpus, panicked, ticker,
                   returned, cgroupStat, context>>

\* the ticker of NewProcessStat fires: p is computed from len(c.Processes),
\* which decides, with n, the calls of c.Collect the firing makes
ProcessStat_Ticker_Fire ==
    /\ ~panicked
    /\ ~ticker.firing
    /\ ticker.n < MaxTicks
    /\ AtTicker("pidstat")
    /\ LET len == Cardinality(DOMAIN Processes)
       IN  ticker' = [ticker EXCEPT !.p = len \div 1024,
                                    !.passes = <<>>,
                                    !.todo = TickerPasses(ticker.n, len),
                                    !.firing = TRUE]
    /\ UNCHANGED <<Processes, procPass, Cgroups, cgPass, FS, All, cpus, panicked,
                   returned, inPass, cgroupStat, context>>

\* the firing calls c.Collect(true), resp. c.Collect(false): the first loop
\* of the call marks every entity dead, and processor_set_default is next
ProcessStat_Ticker_Collect ==
    /\ ~panicked
    /\ ticker.firing
    /\ ticker.todo # <<>>
    /\ AtTicker("pidstat")
    /\ Processes' = MarkDead(Processes)
    /\ inPass' = [inPass EXCEPT !.pidstat =
                     Append(@, ProcessCall(Head(ticker.todo), Processes,
                                           procPass.failed))]
    /\ ticker' = [ticker EXCEPT !.passes = Append(@, Head(ticker.todo)),
                                !.todo = Tail(@)]
    /\ UNCHANGED <<procPass, Cgroups, cgPass, FS, All, cpus, panicked, returned,
                   cgroupStat, context>>

\* the calls of the firing have returned: n++, and the goroutine receives
\* from the ticker again
ProcessStat_Ticker_Next ==
    /\ ~panicked
    /\ ticker.firing
    /\ ticker.todo = <<>>
    /\ AtTicker("pidstat")
    /\ ticker' = [ticker EXCEPT !.n = @ + 1, !.firing = FALSE]
    /\ UNCHANGED <<Processes, procPass, Cgroups, cgPass, FS, All, cpus, panicked,
                   returned, inPass, cgroupStat, context>>

\* FSStat.Collect() is called and opens /etc/mtab, one of Mtabs: the call
\* returns when the file cannot be opened.  History: mtab has the lines of
\* the file and before the registry the call was made on.
FSStat_Collect_Open(Mtabs) ==
    /\ ~panicked
    /\ AtTicker("fsstat")
    /\ \E mtab \in Mtabs :
         /\ FS' = BeginFSPass(FS)
         /\ inPass' = IF ~mtab.open THEN inPass
                      ELSE [inPass EXCEPT !.fsstat =
                               Append(@, [lines |-> mtab.lines, pending |-> FALSE,
                                          mp |-> "", mtab |-> mtab.lines,
                                          before |-> FS])]
    /\ UNCHANGED <<Processes, procPass, Cgroups, cgPass, All, cpus, panicked,
                   ticker, returned, cgroupStat, context>>

\* FSStat.Collect(), a turn of the loop up to o.Collect(): the record is
\* read and, unless it is excluded, the entity of its mount point is there
\* for statfs to be called; a record of fewer than four fields that is not
\* excluded by its first is a run-time panic
FSStat_Collect_Line ==
    /\ ~panicked
    /\ \E i \in DOMAIN inPass.fsstat :
         LET call == inPass.fsstat[i]
             q == ScanMount([h |-> FS, panic |-> FALSE, pending |-> FALSE,
                             mp |-> ""], Head(call.lines))
         IN  /\ ~call.pending
             /\ call.lines # <<>>
             /\ FS' = q.h
             /\ context' = context \cup Registered(q.h)
             /\ panicked' = q.panic
             /\ inPass' = [inPass EXCEPT !.fsstat[i] =
                              [call EXCEPT !.lines = IF q.pending THEN call.lines
                                                     ELSE Tail(call.lines),
                                           !.pending = q.pending,
                                           !.mp = q.mp]]
    /\ UNCHANGED <<Processes, procPass, Cgroups, cgPass, All, cpus, ticker,
                   returned, cgroupStat>>

\* PerFSStat.Collect(): statfs has answered one of Answers and the six
\* gauges are set
FSStat_Collect_Statfs(Answers) ==
    /\ ~panicked
    /\ \E i \in DOMAIN inPass.fsstat, answer \in Answers :
         LET call == inPass.fsstat[i]
         IN  /\ call.pending
             /\ FS' = [FS EXCEPT ![call.mp] = PerFSStat_Collect(@, answer)]
             /\ inPass' = [inPass EXCEPT !.fsstat[i] =
                              [call EXCEPT !.lines = Tail(@), !.pending = FALSE,
                                           !.mp = ""]]
    /\ UNCHANGED <<Processes, procPass, Cgroups, cgPass, All, cpus, panicked,
                   ticker, returned, cgroupStat, context>>

\* FSStat.Collect() returns after the last record: it removes nothing
FSStat_Collect_Return ==
    /\ ~panicked
    /\ \E i \in DOMAIN inPass.fsstat :
         /\ ~inPass.fsstat[i].pending
         /\ inPass.fsstat[i].lines = <<>>
         /\ inPass' = Return("fsstat", i)
    /\ UNCHANGED <<Processes, procPass, Cgroups, cgPass, FS, All, cpus, panicked,
                   ticker, returned, cgroupStat, context>>

\* the ticker of NewCgroupStat fires and CgroupStat.Collect(c.Mountpoint) is
\* called: the cgroups are found among n directories, the walk being one of
\* Walks, and the second loop deletes the tracked cgroups that are not
\* among them; each directory is one of Kinds.  History: walk, the cgroups
\* found, the registry before the call and the files read for each cgroup.
CgroupStat_Collect_Delete(n, Walks, Kinds) ==
    /\ ~panicked
    /\ cgroupStat.ticker
    /\ cgroupStat.Mountpoint = Mountpoint
    /\ AtTicker("cgroup")
    /\ \E walk \in Walks, dirs \in [1 .. n -> Kinds] :
         LET found == FindCgroups(walk, dirs)
         IN  /\ walk # "ok" => \A i \in 1 .. n : dirs[i] = "none"
             /\ panicked' = found.panic
             /\ Cgroups' = IF found.panic THEN Cgroups
                           ELSE DeleteUndiscovered(BeginCgroupPass(Cgroups),
                                                   found.cgroups)
             /\ inPass' = IF found.panic THEN inPass
                          ELSE [inPass EXCEPT !.cgroup =
                                   Append(@, [mountpoint |-> cgroupStat.Mountpoint,
                                              found |-> found.cgroups,
                                              cgroups |-> found.cgroups,
                                              at |-> "cgroup",
                                              walk |-> walk,
                                              before |-> Cgroups,
                                              files |-> EmptyMap])]
    /\ UNCHANGED <<Processes, procPass, cgPass, FS, All, cpus, ticker, returned,
                   cgroupStat, context>>

\* CgroupStat.Collect(mountpoint), a turn of the third loop up to
\* Metrics.Collect(): a cgroup that is not tracked gets its entity
CgroupStat_Collect_Cgroup ==
    /\ ~panicked
    /\ \E i \in DOMAIN inPass.cgroup :
         LET call == inPass.cgroup[i]
             cgroup == Head(call.cgroups)
         IN  /\ call.at = "cgroup"
             /\ call.cgroups # <<>>
             /\ Cgroups' = IF cgroup \in DOMAIN Cgroups THEN Cgroups
                           ELSE Put(Cgroups, cgroup, NewPerCgroupStat(cgroup))
             /\ context' = context \cup Registered(Cgroups')
             /\ inPass' = [inPass EXCEPT !.cgroup[i].at = "cpu.stat"]
    /\ UNCHANGED <<Processes, procPass, cgPass, FS, All, cpus, panicked, ticker,
                   returned, cgroupStat>>

\* PerCgroupStatMetrics.Collect(): cpu.stat, one of Stats, is read and its
\* counters are set, and cpu.cfs_period_us is next; the turn is over when
\* cpu.stat cannot be opened, and a line of a single field is a run-time
\* panic that leaves what was set before it
CgroupStat_Collect_CpuStat(Stats) ==
    /\ ~panicked
    /\ \E i \in DOMAIN inPass.cgroup, stat \in Stats :
         LET call == inPass.cgroup[i]
             cgroup == Head(call.cgroups)
             r == CollectCpuStatLines([s |-> Cgroups[cgroup].Metrics,
                                       panic |-> FALSE], stat.lines)
             read == [call EXCEPT !.files =
                         Put(@, cgroup, [NoFiles EXCEPT !.stat = stat])]
         IN  /\ call.at = "cpu.stat"
             /\ Cgroups' = [Cgroups EXCEPT ![cgroup].Metrics = r.s]
             /\ panicked' = r.panic
             /\ inPass' = [inPass EXCEPT !.cgroup[i] =
                              IF stat.open
                              THEN [read EXCEPT !.at = "cpu.cfs_period_us"]
                              ELSE [read EXCEPT !.cgroups = Tail(@),
                                                !.at = "cgroup"]]
    /\ UNCHANGED <<Processes, procPass, cgPass, FS, All, cpus, ticker, returned,
                   cgroupStat, context>>

\* PerCgroupStatMetrics.Collect(): cpu.cfs_period_us, one of Periods, is
\* read and its gauge is set, and cpu.cfs_quota_us is next
CgroupStat_Collect_Period(Periods) ==
    /\ ~panicked
    /\ \E i \in DOMAIN inPass.cgroup, period \in Periods :
         LET call == inPass.cgroup[i]
             cgroup == Head(call.cgroups)
         IN  /\ call.at = "cpu.cfs_period_us"
             /\ Cgroups' = [Cgroups EXCEPT ![cgroup].Metrics.CfsPeriodUs =
                               GaugeSet(@, Float(ReadUintFromFile(period)))]
             /\ inPass' = [inPass EXCEPT !.cgroup[i] =
                              [call EXCEPT !.at = "cpu.cfs_quota_us",
                                           !.files[cgroup].period = period]]
    /\ UNCHANGED <<Processes, procPass, cgPass, FS, All, cpus, panicked, ticker,
                   returned, cgroupStat, context>>

\* PerCgroupStatMetrics.Collect(): cpu.cfs_quota_us, one of Quotas, is read
\* and its gauge is set, which ends the turn
CgroupStat_Collect_Quota(Quotas) ==
    /\ ~panicked
    /\ \E i \in DOMAIN inPass.cgroup, quota \in Quotas :
         LET call == inPass.cgroup[i]
             cgroup == Head(call.cgroups)
         IN  /\ call.at = "cpu.cfs_quota_us"
             /\ Cgroups' = [Cgroups EXCEPT ![cgroup].Metrics.CfsQuotaUs =
                               GaugeSet(@, Float(ReadUintFromFile(quota)))]
             /\ inPass' = [inPass EXCEPT !.cgroup[i] =
                              [call EXCEPT !.cgroups = Tail(@), !.at = "cgroup",
                                           !.files[cgroup].quota = quota]]
    /\ UNCHANGED <<Processes, procPass, cgPass, FS, All, cpus, panicked, ticker,
                   returned, cgroupStat, context>>

\* CgroupStat.Collect(mountpoint) returns after its third loop
CgroupStat_Collect_Return ==
    /\ ~panicked
    /\ \E i \in DOMAIN inPass.cgroup :
         /\ inPass.cgroup[i].at = "cgroup"
         /\ inPass.cgroup[i].cgroups = <<>>
         /\ cgPass' = [passed |-> TRUE,
                        discovered |-> SeqToSet(inPass.cgroup[i].found)]
         /\ inPass' = Return("cgroup", i)
    /\ UNCHANGED <<Processes, procPass, Cgroups, FS, All, cpus, panicked, ticker,
                   returned, cgroupStat, context>>

\* CgroupStat.Collect(mountpoint) of the collector that also reads the CPU
\* times is called elapsed seconds after the pass before: the cgroups are
\* found and the second loop deletes the tracked cgroups that are not among
\* them
CgroupStat_CollectTimes_Delete ==
    /\ ~panicked
    /\ cgroupStat.ticker
    /\ AtTicker("cgroup")
    /\ \E dirs \in [1 .. MaxCgroups -> FewDirKinds],
          elapsed \in 1 .. MaxElapsed :
         LET cgroups == FindCgroups("ok", dirs).cgroups
         IN  /\ \A k \in DOMAIN Cgroups : Cgroups[k].since + elapsed <= MaxSince
             /\ Cgroups' = DeleteUndiscovered(
                               [k \in DOMAIN Cgroups |->
                                   [Cgroups[k] EXCEPT !.since = @ + elapsed]],
                               cgroups)
             /\ inPass' = [inPass EXCEPT !.cgroup =
                              Append(@, [mountpoint |-> cgroupStat.Mountpoint,
                                         found |-> cgroups,
                                         cgroups |-> cgroups,
                                         at |-> "cgroup",
                                         procs |-> 0,
                                         utime |-> 0, stime |-> 0])]
    /\ UNCHANGED <<Processes, procPass, cgPass, FS, All, cpus, panicked, ticker,
                   returned, cgroupStat, context>>

\* CgroupStat.Collect(mountpoint) of that collector, a turn of the third
\* loop up to c.Cgroups[cgroup].Collect(): a cgroup that is not tracked
\* gets its entity
CgroupStat_CollectTimes_Cgroup ==
    /\ ~panicked
    /\ \E i \in DOMAIN inPass.cgroup :
         LET call == inPass.cgroup[i]
             cgroup == Head(call.cgroups)
         IN  /\ call.at = "cgroup"
             /\ call.cgroups # <<>>
             /\ Cgroups' = IF cgroup \in DOMAIN Cgroups THEN Cgroups
                           ELSE Put(Cgroups, cgroup, NewPerCgroupStatTimes(cgroup))
             /\ context' = context \cup Registered(Cgroups')
             /\ inPass' = [inPass EXCEPT !.cgroup[i].at = "cpu.stat"]
    /\ UNCHANGED <<Processes, procPass, cgPass, FS, All, cpus, panicked, ticker,
                   returned, cgroupStat>>

\* (*PerCgroupStat).Collect(): cpu.stat is read and its counters are set,
\* and cpu.cfs_period_us is next; the call returns when cpu.stat cannot be
\* opened, and a line of a single field is a run-time panic
PerCgroupStat_Collect_CpuStat ==
    /\ ~panicked
    /\ \E i \in DOMAIN inPass.cgroup,
          stat \in TimesCpuStatFiles :
         LET call == inPass.cgroup[i]
             cgroup == Head(call.cgroups)
             r == PerCgroupStat_CollectLines([s |-> Cgroups[cgroup],
                                              panic |-> FALSE], stat.lines)
         IN  /\ call.at = "cpu.stat"
             /\ Cgroups' = [Cgroups EXCEPT ![cgroup] = r.s]
             /\ panicked' = r.panic
             /\ inPass' = [inPass EXCEPT !.cgroup[i] =
                              IF stat.open
                              THEN [call EXCEPT !.at = "cpu.cfs_period_us"]
                              ELSE [call EXCEPT !.cgroups = Tail(@),
                                                !.at = "cgroup"]]
    /\ UNCHANGED <<Processes, procPass, cgPass, FS, All, cpus, ticker, returned,
                   cgroupStat, context>>

\* (*PerCgroupStat).Collect(): cpu.cfs_period_us is read and its gauge is
\* set, and cpu.cfs_quota_us is next
PerCgroupStat_Collect_Period ==
    /\ ~panicked
    /\ \E i \in DOMAIN inPass.cgroup, period \in {File(<<"100000">>)} :
         LET call == inPass.cgroup[i]
         IN  /\ call.at = "cpu.cfs_period_us"
             /\ Cgroups' = [Cgroups EXCEPT ![Head(call.cgroups)].Cfs_period_us =
                               GaugeSet(@, Float(ReadUintFromFile(period)))]
             /\ inPass' = [inPass EXCEPT !.cgroup[i].at = "cpu.cfs_quota_us"]
    /\ UNCHANGED <<Processes, procPass, cgPass, FS, All, cpus, panicked, ticker,
                   returned, cgroupStat, context>>

\* (*PerCgroupStat).Collect(): cpu.cfs_quota_us is read and its gauge is
\* set, and cgroup.procs is next
PerCgroupStat_Collect_Quota ==
    /\ ~panicked
    /\ \E i \in DOMAIN inPass.cgroup, quota \in {File(<<"200000">>)} :
         LET call == inPass.cgroup[i]
         IN  /\ call.at = "cpu.cfs_quota_us"
             /\ Cgroups' = [Cgroups EXCEPT ![Head(call.cgroups)].Cfs_quota_us =
                               GaugeSet(@, Float(ReadUintFromFile(quota)))]
             /\ inPass' = [inPass EXCEPT !.cgroup[i].at = "cgroup.procs"]
    /\ UNCHANGED <<Processes, procPass, cgPass, FS, All, cpus, panicked, ticker,
                   returned, cgroupStat, context>>

\* getCgroupCPUTimes(): cgroup.procs is opened; it lists procs processes,
\* whose times are added up in utime and stime from 0, and when it cannot
\* be opened the call returns through the deferred procsFd.Close() with
\* nothing set
PerCgroupStat_Collect_Procs ==
    /\ ~panicked
    /\ \E i \in DOMAIN inPass.cgroup, procsOpen \in BOOLEAN,
          procs \in 0 .. MaxProcs :
         LET call == inPass.cgroup[i]
         IN  /\ call.at = "cgroup.procs"
             /\ ~procsOpen => procs = 0
             /\ inPass' = [inPass EXCEPT !.cgroup[i] =
                              IF procsOpen
                              THEN [call EXCEPT !.at = "proc.stat",
                                                !.procs = procs,
                                                !.utime = 0, !.stime = 0]
                              ELSE [call EXCEPT !.at = "procsFd.Close"]]
    /\ UNCHANGED <<Processes, procPass, Cgroups, cgPass, FS, All, cpus, panicked,
                   ticker, returned, cgroupStat, context>>

\* getCgroupCPUTimes(), a turn of its loop: getCPUTimes reads the stat
\* file of the next process and its times are added to utime and stime; a
\* line of fewer than fifteen fields is a run-time panic
PerCgroupStat_Collect_ProcStat ==
    /\ ~panicked
    /\ \E i \in DOMAIN inPass.cgroup, stat \in ProcStatFiles :
         LET call == inPass.cgroup[i]
             r == getCPUTimes(stat)
         IN  /\ call.at = "proc.stat"
             /\ call.procs > 0
             /\ panicked' = r.panic
             /\ inPass' = IF r.panic THEN inPass
                          ELSE [inPass EXCEPT !.cgroup[i] =
                                   [call EXCEPT !.procs = @ - 1,
                                                !.utime = @ + r.user,
                                                !.stime = @ + r.system]]
    /\ UNCHANGED <<Processes, procPass, Cgroups, cgPass, FS, All, cpus, ticker,
                   returned, cgroupStat, context>>

\* getCgroupCPUTimes(): the loop over cgroup.procs is over, Utime and Stime
\* are set, and the deferred procsFd.Close() is next
PerCgroupStat_Collect_SetTimes ==
    /\ ~panicked
    /\ \E i \in DOMAIN inPass.cgroup :
         LET call == inPass.cgroup[i]
         IN  /\ call.at = "proc.stat"
             /\ call.procs = 0
             /\ Cgroups' = [Cgroups EXCEPT ![Head(call.cgroups)] =
                               getCgroupCPUTimes(@, call.utime, call.stime)]
             /\ inPass' = [inPass EXCEPT !.cgroup[i].at = "procsFd.Close"]
    /\ UNCHANGED <<Processes, procPass, cgPass, FS, All, cpus, panicked, ticker,
                   returned, cgroupStat, context>>

\* (*PerCgroupStat).Collect(): getCgroupCPUTimes has returned and the three
\* computed gauges are set, which ends the turn
PerCgroupStat_Collect_Pcts ==
    /\ ~panicked
    /\ \E i \in DOMAIN inPass.cgroup :
         LET call == inPass.cgroup[i]
         IN  /\ call.at = "procsFd.Close"
             /\ Cgroups' = [Cgroups EXCEPT ![Head(call.cgroups)] =
                               PerCgroupStat_CollectPcts(@)]
             /\ inPass' = [inPass EXCEPT !.cgroup[i] =
                              [call EXCEPT !.cgroups = Tail(@), !.at = "cgroup"]]
    /\ UNCHANGED <<Processes, procPass, cgPass, FS, All, cpus, panicked, ticker,
                   returned, cgroupStat, context>>

\* CgroupStat.Collect(mountpoint) of that collector returns after its third
\* loop
CgroupStat_CollectTimes_Return ==
    /\ ~panicked
    /\ \E i \in DOMAIN inPass.cgroup :
         /\ inPass.cgroup[i].at = "cgroup"
         /\ inPass.cgroup[i].cgroups = <<>>
         /\ inPass' = Return("cgroup", i)
    /\ UNCHANGED <<Processes, procPass, Cgroups, cgPass, FS, All, cpus, panicked,
                   ticker, returned, cgroupStat, context>>

\* CPUStat.Collect() is called elapsed steps of the ticker after the pass
\* before and opens /proc/stat, one of Files: the call returns when the
\* file cannot be opened.  History: stat has the lines of the file, All and
\* cpus what the collector held when the call was made.
CPUStat_Collect_Open(Files) ==
    /\ ~panicked
    /\ AtTicker("cpustat")
    /\ \E stat \in Files, elapsed \in 1 .. MaxElapsed :
         /\ All.since + elapsed <= MaxSince
         /\ \A k \in DOMAIN cpus : cpus[k].since + elapsed <= MaxSince
         /\ All' = Elapse(All, elapsed)
         /\ cpus' = [k \in DOMAIN cpus |-> Elapse(cpus[k], elapsed)]
         /\ inPass' = IF ~stat.open THEN inPass
                      ELSE [inPass EXCEPT !.cpustat =
                               Append(@, [lines |-> stat.lines, stat |-> stat.lines,
                                          All |-> All, cpus |-> cpus])]
    /\ UNCHANGED <<Processes, procPass, Cgroups, cgPass, FS, panicked, ticker,
                   returned, cgroupStat, context>>

\* CPUStat.Collect(), a turn of the loop over the lines the scanner reads
CPUStat_Collect_Line ==
    /\ ~panicked
    /\ \E i \in DOMAIN inPass.cpustat :
         LET call == inPass.cpustat[i]
             r == CollectStatLine([All |-> All, cpus |-> cpus, panic |-> FALSE],
                                  Head(call.lines))
         IN  /\ call.lines # <<>>
             /\ All' = r.All
             /\ cpus' = r.cpus
             /\ context' = context \cup Registered(r.cpus)
             /\ panicked' = r.panic
             /\ inPass' = [inPass EXCEPT !.cpustat[i].lines = Tail(@)]
    /\ UNCHANGED <<Processes, procPass, Cgroups, cgPass, FS, ticker, returned,
                   cgroupStat>>

\* CPUStat.Collect() returns after the last line
CPUStat_Collect_Return ==
    /\ ~panicked
    /\ \E i \in DOMAIN inPass.cpustat :
         /\ inPass.cpustat[i].lines = <<>>
         /\ inPass' = Return("cpustat", i)
    /\ UNCHANGED <<Processes, procPass, Cgroups, cgPass, FS, All, cpus, panicked,
                   ticker, returned, cgroupStat, context>>

\* a call of CPUS while a pass of CPUStat.Collect is about to insert the
\* entity of a cpu into s.cpus: nothing orders the range of CPUS over the
\* map and the insert of the pass.  The caller gets the keys from before or
\* from after the insert (CPUStat_CPUS), or the run-time ends the process
\* with "concurrent map iteration and map write".
CPUStat_CPUS_Fatal ==
    /\ ~panicked
    /\ \E i \in DOMAIN inPass.cpustat :
         LET call == inPass.cpustat[i]
             name == At(StatFields[Head(call.lines)], 0)
         IN  /\ call.lines # <<>>
             /\ IsCPU(name)
             /\ name # "cpu"
             /\ name \notin DOMAIN cpus
    /\ panicked' = TRUE
    /\ UNCHANGED <<Processes, procPass, Cgroups, cgPass, FS, All, cpus, ticker,
                   returned, inPass, cgroupStat, context>>

\* a call of ByCPUUsage or of ByMemUsage while a pass of ProcessStat.Collect
\* is in progress in the ticker's goroutine: nothing orders the reader's
\* range over c.Processes and the writes of the pass.  The reader returns
\* what it finds (ProcessStat_By), or the run-time ends the process with
\* "concurrent map iteration and map write".
ProcessStat_By_Fatal ==
    /\ ~panicked
    /\ inPass.pidstat # <<>>
    /\ panicked' = TRUE
    /\ UNCHANGED <<Processes, procPass, Cgroups, cgPass, FS, All, cpus, ticker,
                   returned, inPass, cgroupStat, context>>

----------------------------------------------------------------------------
(* Specifications *)

\* The state after the constructors: empty registries, nothing collected
InitRegistries ==
    /\ Processes = EmptyMap
    /\ procPass = NoProcPass
    /\ Cgroups = EmptyMap
    /\ cgPass = NoCgPass
    /\ FS = EmptyMap
    /\ All = NewPerCPU("cpu")
    /\ cpus = EmptyMap
    /\ panicked = FALSE
    /\ ticker = NewTicker
    /\ returned = NoReturn
    /\ inPass = NoPass
    /\ context = All.registered \cup Registered(Cgroups) \cup Registered(FS)
                 \cup Registered(cpus)

\* the collectors are constructed, the cgroup mountpoint was found
Init ==
    /\ InitRegistries
    /\ cgroupStat = [made |-> TRUE, Mountpoint |-> Mountpoint, ticker |-> TRUE,
                     read |-> File(<<"cgroup /cgroup/cpu cgroup rw,cpu 0 0">>)]

\* the passes of ProcessStat.Collect, whatever the kernel answers
SpecProcess ==
    Init /\ [][\/ ProcessStat_Collect_Mark(BOOLEAN)
                \/ ProcessStat_Collect_Enum(AllTaskLists, EnumCalls, MaxClock)
                \/ ProcessStat_Collect_Task(KernReturn)
                \/ ProcessStat_Collect_Kinfo(SysctlReturn)
                \/ ProcessStat_Collect_User
                \/ ProcessStat_Collect_UserTime(KernReturn)
                \/ ProcessStat_Collect_SystemTime
                \/ ProcessStat_Collect_Sweep]_vars

\* the walks of the mountpoint
AllWalks == {"ok", "unreadable", "vanished"}

\* the passes of CgroupStat.Collect over MaxCgroups directories
SpecCgroup ==
    Init /\ [][\/ CgroupStat_Collect_Delete(MaxCgroups, AllWalks, DirKinds)
                \/ CgroupStat_Collect_Cgroup
                \/ CgroupStat_Collect_CpuStat(CpuStatFiles)
                \/ CgroupStat_Collect_Period(PeriodFiles)
                \/ CgroupStat_Collect_Quota(QuotaFiles)
                \/ CgroupStat_Collect_Return]_vars

\* the passes of CgroupStat.Collect over one directory, whatever its files
\* contain
SpecCgroupFiles ==
    Init /\ [][\/ CgroupStat_Collect_Delete(1, AllWalks, DirKinds)
                \/ CgroupStat_Collect_Cgroup
                \/ CgroupStat_Collect_CpuStat(AllCpuStatFiles)
                \/ CgroupStat_Collect_Period(AllPeriodFiles)
                \/ CgroupStat_Collect_Quota(AllQuotaFiles)
                \/ CgroupStat_Collect_Return]_vars

\* what opening /etc/mtab can give: no file, or its lines
MtabFiles == {NoFile} \cup { File(q) : q \in SeqsUpTo(MtabLines, MaxMtabLines) }

\* the passes of FSStat.Collect
SpecFS ==
    Init /\ [][\/ FSStat_Collect_Open(MtabFiles)
                \/ FSStat_Collect_Line
                \/ FSStat_Collect_Statfs(StatfsAnswers)
                \/ FSStat_Collect_Return]_vars

\* the passes of CPUStat.Collect
SpecCPU ==
    Init /\ [][\/ CPUStat_Collect_Open(StatFiles)
                \/ CPUStat_Collect_Line
                \/ CPUStat_Collect_Return]_vars

\* the readers are called on a registry that one or two passes built
InitReaders ==
    /\ Processes \in ReaderRegistries
    /\ procPass = NoProcPass
    /\ Cgroups = EmptyMap
    /\ cgPass = NoCgPass
    /\ FS = EmptyMap
    /\ All = NewPerCPU("cpu")
    /\ cpus = EmptyMap
    /\ panicked = FALSE
    /\ ticker = NewTicker
    /\ returned = NoReturn
    /\ inPass = NoPass
    /\ context = All.registered \cup Registered(Cgroups) \cup Registered(FS)
                 \cup Registered(cpus)
    /\ cgroupStat = [made |-> TRUE, Mountpoint |-> Mountpoint, ticker |-> TRUE,
                     read |-> File(<<"cgroup /cgroup/cpu cgroup rw,cpu 0 0">>)]

SpecReaders == InitReaders /\ [][ProcessStat_By("ByCPUUsage") \/ ProcessStat_By("ByMemUsage")]_vars

\* the mount tables of the filesystem collector when its goroutine runs
\* beside those of the other collectors
FewMtabFiles ==
    {File(<<>>), File(<<"/dev/sda1 / ext4 rw 0 0">>),
     File(<<"proc /proc proc rw 0 0", "/dev/sda1 / ext4 rw 0 0">>)}

\* the goroutines of the three collectors, every call being answered
SpecPhases ==
    /\ Init
    /\ [][\/ ProcessStat_Collect_Mark({FALSE})
          \/ ProcessStat_Collect_Enum(FewTaskLists, {}, 1)
          \/ ProcessStat_Collect_Task({KERN_SUCCESS})
          \/ ProcessStat_Collect_Kinfo({0})
          \/ ProcessStat_Collect_User
          \/ ProcessStat_Collect_UserTime({KERN_SUCCESS})
          \/ ProcessStat_Collect_SystemTime
          \/ ProcessStat_Collect_Sweep
          \/ FSStat_Collect_Open(FewMtabFiles)
          \/ FSStat_Collect_Line
          \/ FSStat_Collect_Statfs(FewStatfsAnswers)
          \/ FSStat_Collect_Return
          \/ CgroupStat_Collect_Delete(1, {"ok"}, FewDirKinds)
          \/ CgroupStat_Collect_Cgroup
          \/ CgroupStat_Collect_CpuStat(FewCpuStatFiles)
          \/ CgroupStat_Collect_Period({File(<<"100000">>)})
          \/ CgroupStat_Collect_Quota({File(<<"200000">>)})
          \/ CgroupStat_Collect_Return]_vars

\* the CgroupStat is constructed, then its ticker fires
InitNewCgroupStat ==
    /\ InitRegistries
    /\ cgroupStat = [made |-> FALSE, Mountpoint |-> "", ticker |-> FALSE,
                     read |-> NoFile]

SpecNewCgroupStat ==
    /\ InitNewCgroupStat
    /\ [][\/ NewCgroupStat
          \/ CgroupStat_Collect_Delete(MaxCgroups, {"ok"}, FewDirKinds)
          \/ CgroupStat_Collect_Cgroup
          \/ CgroupStat_Collect_CpuStat(FewCpuStatFiles)
          \/ CgroupStat_Collect_Period({File(<<"100000">>)})
          \/ CgroupStat_Collect_Quota({File(<<"200000">>)})
          \/ CgroupStat_Collect_Return]_vars

\* the goroutine of the process collector and the callers of the readers
SpecRace ==
    Init /\ [][\/ ProcessStat_Collect_Mark({FALSE})
                \/ ProcessStat_Collect_Enum(FewTaskLists, {}, 1)
                \/ ProcessStat_Collect_Task({KERN_SUCCESS})
                \/ ProcessStat_Collect_Kinfo({0})
                \/ ProcessStat_Collect_User
                \/ ProcessStat_Collect_UserTime({KERN_SUCCESS})
                \/ ProcessStat_Collect_SystemTime
                \/ ProcessStat_Collect_Sweep
                \/ ProcessStat_By("ByCPUUsage")
                \/ ProcessStat_By("ByMemUsage")
                \/ ProcessStat_By_Fatal]_vars

\* NewProcessStat has returned and the ticker has not fired, or it has
\* fired once while the kernel listed ManyProcesses processes: the two
\* calls of Collect of that firing have tracked them all
InitTicker ==
    /\ \/ /\ Processes = EmptyMap
          /\ procPass = NoProcPass
          /\ ticker = NewTicker
       \/ /\ Processes = CollectPasses(EmptyMap, TickerPasses(0, 0),
                                       ManyProcesses, 1)
          /\ procPass = [clock |-> Tick(1), failed |-> "none"]
          /\ ticker = [NewTicker EXCEPT !.n = 1, !.passes = TickerPasses(0, 0)]
    /\ Cgroups = EmptyMap
    /\ cgPass = NoCgPass
    /\ FS = EmptyMap
    /\ All = NewPerCPU("cpu")
    /\ cpus = EmptyMap
    /\ panicked = FALSE
    /\ returned = NoReturn
    /\ inPass = NoPass
    /\ context = All.registered
    /\ cgroupStat = [made |-> TRUE, Mountpoint |-> Mountpoint, ticker |-> TRUE,
                     read |-> File(<<"cgroup /cgroup/cpu cgroup rw,cpu 0 0">>)]

\* the task arrays of the processes 1 .. found, for the numbers of
\* processes the kernel lists in a pass of the ticker
FoundLists == { [k \in 1 .. found |-> k] : found \in ProcessCounts }

\* the goroutine of the ticker of NewProcessStat, every call being answered
SpecTicker ==
    /\ InitTicker
    /\ [][\/ ProcessStat_Ticker_Fire
          \/ ProcessStat_Ticker_Collect
          \/ ProcessStat_Collect_Enum(FoundLists, {}, MaxClock)
          \/ ProcessStat_Collect_Task({KERN_SUCCESS})
          \/ ProcessStat_Collect_Kinfo({0})
          \/ ProcessStat_Collect_User
          \/ ProcessStat_Collect_UserTime({KERN_SUCCESS})
          \/ ProcessStat_Collect_SystemTime
          \/ ProcessStat_Collect_Sweep
          \/ ProcessStat_Ticker_Next]_vars

\* the passes of CPUStat.Collect and the calls of CPUS
SpecCPUS ==
    Init /\ [][\/ CPUStat_Collect_Open(StatFiles)
                \/ CPUStat_Collect_Line
                \/ CPUStat_Collect_Return
                \/ CPUStat_CPUS
                \/ CPUStat_CPUS_Fatal]_vars

\* the Darwin collector is constructed
InitDarwin ==
    /\ Processes = EmptyMap
    /\ procPass = NoProcPass
    /\ Cgroups = EmptyMap
    /\ cgPass = NoCgPass
    /\ FS = EmptyMap
    /\ All = PerCPUNew("cpu")
    /\ cpus = EmptyMap
    /\ panicked = FALSE
    /\ ticker = NewTicker
    /\ returned = NoReturn
    /\ inPass = NoPass
    /\ context = All.registered
    /\ cgroupStat = [made |-> FALSE, Mountpoint |-> "", ticker |-> FALSE,
                     read |-> NoFile]

\* the passes of the Darwin CPUStat.Collect
SpecCPUDarwin == InitDarwin /\ [][CPUStat_Collect_Darwin]_vars

\* the passes of the CgroupStat that also reads the CPU times
SpecCgroupTimes ==
    Init /\ [][\/ CgroupStat_CollectTimes_Delete
                \/ CgroupStat_CollectTimes_Cgroup
                \/ PerCgroupStat_Collect_CpuStat
                \/ PerCgroupStat_Collect_Period
                \/ PerCgroupStat_Collect_Quota
                \/ PerCgroupStat_Collect_Procs
                \/ PerCgroupStat_Collect_ProcStat
                \/ PerCgroupStat_Collect_SetTimes
                \/ PerCgroupStat_Collect_Pcts
                \/ CgroupStat_CollectTimes_Return]_vars

----------------------------------------------------------------------------
(* Properties *)

\* A property of a pass is stated on the step in which the call of Collect
\* returns: the registry after the step is the registry after the pass, and
\* the history of the call tells what the pass was called on and what it
\* has read.

\* the step in which the call of Collect of collector c returns
Returns(c) == inPass[c] # <<>> /\ inPass'[c] = <<>>

\* the step in which a call of ProcessStat.Collect that has enumerated the
\* tasks returns
ReturnsEnumerated == Returns("pidstat") /\ procPass'.failed = "none"

\* C1: after every pass of ProcessStat.Collect in which the tasks are
\* enumerated, the keys of Processes are exactly the pids of the enumerated
\* tasks that translate to a non-negative pid, whatever the task_info calls
\* answer.
C1_KeysAreDiscoveredPids ==
    [][ReturnsEnumerated
         => DOMAIN Processes' = inPass.pidstat[1].discovered]_vars

\* C2: after the second of two consecutive passes of CgroupStat.Collect that
\* discover S1 then S2, the keys of Cgroups are exactly S2, every key of
\* S1 \ S2 is absent, and every key of S2 \ S1 is present with an entity
\* constructed in that pass whose counters were set in that pass at most.
C2_Reconciliation ==
    [][(Returns("cgroup") /\ cgPass.passed)
         => LET S1 == cgPass.discovered
                S2 == SeqToSet(inPass.cgroup[1].found)
            IN  /\ DOMAIN Cgroups' = S2
                /\ \A k \in S1 \ S2 : k \notin DOMAIN Cgroups'
                /\ \A k \in S2 \ S1 :
                      /\ k \in DOMAIN Cgroups'
                      /\ Cgroups'[k].created
                      /\ \A c \in CpuStatCounters :
                            /\ Cgroups'[k].Metrics[c].n <= 1
                            /\ Cgroups'[k].Metrics[c].p = 0]_vars

\* a second pass that has dropped one cgroup and constructed another, whose
\* counters it has set, is about to return
C2_Witness ==
    /\ ~panicked
    /\ cgPass.passed
    /\ Len(inPass.cgroup) = 1
    /\ inPass.cgroup[1].at = "cgroup" /\ inPass.cgroup[1].cgroups = <<>>
    /\ cgPass.discovered \ SeqToSet(inPass.cgroup[1].found) # {}
    /\ \E k \in SeqToSet(inPass.cgroup[1].found) \ cgPass.discovered :
          k \in DOMAIN Cgroups /\ Cgroups[k].created
              /\ Cgroups[k].Metrics.NrPeriods.n = 1

\* C3: after every pass of FSStat.Collect that opened the mount table, the
\* keys of FS are exactly the mount points of the records read in that pass
\* that are not excluded; a mount point missing from the table is no key.
C3_KeysAreMountPoints ==
    [][Returns("fsstat")
         => DOMAIN FS' = MountPointsOf(inPass.fsstat[1].mtab)]_vars

\* C4: a pid tracked before a pass of ProcessStat.Collect and discovered by
\* it is tracked after it by the same entity, not a reconstructed one, and
\* the counters the pass sets take the sample set before as their baseline.
C4_DiscoveredAgainIsKept ==
    [][ReturnsEnumerated
         => LET call == inPass.pidstat[1]
            IN  \A k \in DOMAIN call.before \cap call.discovered :
                   /\ k \in DOMAIN Processes'
                   /\ ~Processes'[k].created
                   /\ (k \notin call.infoFailed
                         => /\ Processes'[k].Metrics.UserTime.p
                                 = call.before[k].Metrics.UserTime.v
                            /\ Processes'[k].Metrics.SystemTime.p
                                 = call.before[k].Metrics.SystemTime.v)]_vars

\* C5: a tracked pid that a pass discovers while one of its task_info calls
\* fails is still tracked after the pass, its UserTime and SystemTime
\* counters being what they were before the pass.
C5_InfoFailureKeepsEntity ==
    [][ReturnsEnumerated
         => LET call == inPass.pidstat[1]
            IN  \A k \in DOMAIN call.before \cap call.infoFailed :
                   /\ k \in DOMAIN Processes'
                   /\ Processes'[k].Metrics.UserTime
                         = call.before[k].Metrics.UserTime
                   /\ Processes'[k].Metrics.SystemTime
                         = call.before[k].Metrics.SystemTime]_vars

\* C6: a pass of ProcessStat.Collect in which the enumeration of the tasks
\* fails leaves the keys and every entity's metrics as they were, and the
\* successful pass after it evicts only keys it does not discover.
C6_DiscoveryFailureKeepsRegistry ==
    [][/\ (Returns("pidstat") /\ procPass'.failed # "none")
            => LET before == inPass.pidstat[1].before
               IN  /\ DOMAIN Processes' = DOMAIN before
                   /\ \A k \in DOMAIN before :
                         Processes'[k].Metrics = before[k].Metrics
       /\ (ReturnsEnumerated /\ inPass.pidstat[1].prev # "none")
            => \A k \in DOMAIN inPass.pidstat[1].before \ DOMAIN Processes' :
                  k \notin inPass.pidstat[1].discovered]_vars

\* C7: a pass of CgroupStat.Collect whose walk of the mountpoint fails
\* leaves the keys of Cgroups as they were.
C7_WalkFailureKeepsKeys ==
    [][(Returns("cgroup") /\ inPass.cgroup[1].walk # "ok")
         => DOMAIN Cgroups' = DOMAIN inPass.cgroup[1].before]_vars

\* C8: when a field of a cpu line of /proc/stat is no unsigned decimal
\* number in a pass, the counter of that field of a tracked cpu holds after
\* the pass the value it held before.
C8_ParseFailureKeepsValue ==
    [][Returns("cpustat")
         => LET call == inPass.cpustat[1]
            IN  \A b \in BadFields(call.stat) :
                   /\ b[1] = "cpu"
                        => CounterGet(All'[b[2]]) = CounterGet(call.All[b[2]])
                   /\ b[1] \in DOMAIN call.cpus
                        => CounterGet(cpus'[b[1]][b[2]])
                             = CounterGet(call.cpus[b[1]][b[2]])]_vars

\* a file ReadUintFromFile cannot open or finds empty
Unreadable(file) == ~file.open \/ Len(file.lines) = 0

\* C9: when cpu.cfs_period_us, resp. cpu.cfs_quota_us, of a tracked cgroup
\* cannot be opened or is empty in a pass, the CfsPeriodUs, resp. CfsQuotaUs,
\* gauge holds after the pass the value it held before.
C9_MissingFileKeepsGauge ==
    [][Returns("cgroup")
         => LET call == inPass.cgroup[1]
            IN  \A k \in DOMAIN call.before \cap DOMAIN call.files :
                   /\ Unreadable(call.files[k].period)
                        => GaugeGet(Cgroups'[k].Metrics.CfsPeriodUs)
                             = GaugeGet(call.before[k].Metrics.CfsPeriodUs)
                   /\ Unreadable(call.files[k].quota)
                        => GaugeGet(Cgroups'[k].Metrics.CfsQuotaUs)
                             = GaugeGet(call.before[k].Metrics.CfsQuotaUs)]_vars

\* C10: whatever /proc/stat contains, a cpu line of fewer than 10 fields
\* included, a pass of CPUStat.Collect completes without a fatal fault.
C10_NoInputIsFatal == ~panicked

\* the PerCPUs of the collector: the aggregate and those of the single cpus
PerCPUs == {All} \cup { cpus[k] : k \in DOMAIN cpus }

\* the rate Usage, UserSpace and Kernel read from the counter c of PerCPU o
RateOf(o, c) == ComputeRate(o[c], o.dt)

\* C11: when the Total rate is not greater than zero, or a rate they read
\* is NaN, Usage, UserSpace and Kernel are NaN: no finite number, no
\* infinity, no division by a zero Total rate.
C11_GuardGivesNaN ==
    \A o \in PerCPUs :
        /\ (~FGt(RateOf(o, "Total"), Float(0))
              \/ \E c \in UsageCounters : IsNaN(RateOf(o, c)))
             => IsNaN(o.UsagePct)
        /\ (~FGt(RateOf(o, "Total"), Float(0))
              \/ \E c \in UserspaceCounters : IsNaN(RateOf(o, c)))
             => IsNaN(o.UserspacePct)
        /\ (~FGt(RateOf(o, "Total"), Float(0)) \/ IsNaN(RateOf(o, "System")))
             => IsNaN(o.KernelPct)

\* two passes have read the same cpu line: the statistics were computed
\* from a Total rate of zero and rates that are numbers, and all three are
\* NaN
C11_Witness ==
    /\ ~panicked
    /\ All.Total.n = 2 /\ All.since = 0
    /\ RateOf(All, "Total") = Float(0)
    /\ \A c \in UsageCounters : ~IsNaN(RateOf(All, c))
    /\ IsNaN(All.UsagePct) /\ IsNaN(All.UserspacePct) /\ IsNaN(All.KernelPct)

\* the aggregate PerCPU after "cpu 100 0 50 850 0 0 0 0 0" and, one second
\* later, "cpu 200 0 100 1700 0 0 0 0 0", both parsed to their last field
AfterTwoCPULines ==
    /\ All.User = CounterSet(CounterSet(NewCounter, 100), 200)
    /\ All.UserLowPrio.v = 0 /\ All.UserLowPrio.p = 0
    /\ All.System.v = 100 /\ All.System.p = 50
    /\ All.Idle.v = 1700 /\ All.Idle.p = 850
    /\ All.Guest.n = 2
    /\ All.dt = 1
    /\ ~panicked

\* C12 as stated: after these two lines the User rate is 100/s, the System
\* rate 50/s, the Total rate 900/s and Usage() is 150/900*100.
C12_AsStated ==
    AfterTwoCPULines
        => /\ RateOf(All, "User") = Float(100)
           /\ RateOf(All, "System") = Float(50)
           /\ RateOf(All, "Total") = Float(900)
           /\ All.UsagePct = Norm(150 * 100, 900)

\* C12, amended: after these two lines, each of at least 10 fields, the User
\* rate is 100/s, the System rate 50/s, the Total rate 1000/s (Total is
\* User + UserLowPrio + System + Idle) and Usage() is 150/1000*100 = 15.
C12_TotalIsSumOfFour ==
    AfterTwoCPULines
        => /\ RateOf(All, "User") = Float(100)
           /\ RateOf(All, "System") = Float(50)
           /\ RateOf(All, "Total") = Float(1000)
           /\ All.UsagePct = Float(15)

\* the two lines were parsed one second apart, the pass that read the
\* second is about to return and Usage() is 15
C12_Witness ==
    /\ AfterTwoCPULines
    /\ Len(inPass.cpustat) = 1
    /\ inPass.cpustat[1].stat = <<"cpu  200 0 100 1700 0 0 0 0 0">>
    /\ inPass.cpustat[1].lines = <<>>
    /\ All.UsagePct = Float(15)

\* C13: Quota() of a cgroup whose cpu.cfs_quota_us and cpu.cfs_period_us
\* were collected in the latest pass is the ratio of their contents: 2 for
\* 200000 and 100000, and -1/100000 for the sentinel -1 and 100000.
C13_QuotaIsRawRatio ==
    [][Returns("cgroup")
         => LET files == inPass.cgroup[1].files
            IN  \A k \in DOMAIN files :
                   (k \in DOMAIN Cgroups' /\ files[k].stat.open
                      /\ files[k].period = File(<<"100000">>))
                       => /\ files[k].quota = File(<<"200000">>)
                               => Quota(Cgroups'[k]) = Float(2)
                          /\ files[k].quota = File(<<"-1">>)
                               => Quota(Cgroups'[k]) = Norm(-1, 100000)]_vars

\* C14: for a cgroup whose Utime and Stime were set twice, Kernel() is the
\* rate of Stime times 100 over the ticks per second, and Usage() is
\* Userspace() + Kernel().
C14_UsageIsUserspacePlusKernel ==
    \A k \in DOMAIN Cgroups :
        LET s == Cgroups[k]
        IN  (s.Utime.n = 2 /\ s.Stime.n = 2 /\ s.dt > 0)
                => /\ CgroupKernel(s)
                        = FDiv(FMul(ComputeRate(s.Stime, s.dt), Float(100)),
                               Float(LINUX_TICKS_IN_SEC))
                   /\ CgroupUsage(s) = FAdd(CgroupUserspace(s), CgroupKernel(s))

\* a float64 within 0..100
IsPercentage(x) == ~IsNaN(x) /\ ~FGt(Float(0), x) /\ ~FGt(x, Float(100))

\* C15: for every filesystem whose statfs values were collected, Usage() is
\* (Blocks - Bfree) / Blocks * 100 and FileUsage() is
\* (Files - Ffree) / Files * 100 of the last collected values: 75 for 1000
\* blocks of which 250 are free, and a value within 0..100.
C15_UsageIsUsedShare ==
    \A k \in DOMAIN FS :
        LET o == FS[k].Metrics
        IN  ~IsNaN(o.Blocks) =>
              /\ FMul(PerFSStat_Usage(FS[k]), o.Blocks)
                    = FMul(FSub(o.Blocks, o.Bfree), Float(100))
              /\ FMul(PerFSStat_FileUsage(FS[k]), o.Files)
                    = FMul(FSub(o.Files, o.Ffree), Float(100))
              /\ (o.Blocks = Float(1000) /\ o.Bfree = Float(250))
                    => PerFSStat_Usage(FS[k]) = Float(75)
              /\ IsPercentage(PerFSStat_Usage(FS[k]))
              /\ IsPercentage(PerFSStat_FileUsage(FS[k]))

\* statfs of / answered 1000 blocks, 250 free, 100 files, 40 free: Usage()
\* is 75 and FileUsage() is 60
C15_Witness ==
    /\ "/" \in DOMAIN FS
    /\ FS["/"].Metrics.Blocks = Float(1000)
    /\ FS["/"].Metrics.Bfree = Float(250)
    /\ FS["/"].Metrics.Files = Float(100)
    /\ FS["/"].Metrics.Ffree = Float(40)
    /\ PerFSStat_Usage(FS["/"]) = Float(75)
    /\ PerFSStat_FileUsage(FS["/"]) = Float(60)

\* the mount points of all the records of /etc/mtab that have one
RecordMounts(lines) ==
    { At(StringsSplit(lines[i], " "), 1) :
        i \in { j \in DOMAIN lines : InRange(StringsSplit(lines[j], " "), 1) } }

\* C16: after every pass of FSStat.Collect that read the mount table, the
\* mount point of every record that is not excluded is a key of FS, and
\* the mount point that only excluded records name is no key of FS: an
\* excluded record neither creates an entity nor keeps one alive.
C16_TrackedIffNotExcluded ==
    [][Returns("fsstat")
         => LET mtab == inPass.fsstat[1].mtab
            IN  /\ MountPointsOf(mtab) \subseteq DOMAIN FS'
                /\ (RecordMounts(mtab) \ MountPointsOf(mtab)) \cap DOMAIN FS'
                      = {}]_vars

\* C17: the firings number 0 and number 1 of the ticker of NewProcessStat
\* each execute a Collect pass, whatever the number of tracked processes.
C17_FirstTwoFiringsCollect ==
    (~ticker.firing /\ ticker.n \in {1, 2}) => ticker.passes # <<>>

\* C18: every firing of the ticker of NewProcessStat executes at least one
\* Collect pass, whatever the firing's number and the number of tracked
\* processes.
C18_EveryFiringCollects ==
    [][ticker'.n = ticker.n + 1 => ticker'.passes # <<>>]_vars

\* C19: in a pass of ProcessStat.Collect that enumerates the tasks,
\* CollectAttributes is invoked for the pids whose entity the pass creates
\* and, when the pass is not the full-attribute one, for no pid tracked
\* before, whose attributes stay what they were; the pass sets the counters
\* of every tracked pid whose task_info calls succeed.
C19_AttributesFetchedOnce ==
    [][ReturnsEnumerated
         => LET call   == inPass.pidstat[1]
                before == call.before
            IN  \A k \in DOMAIN Processes' :
                   /\ Processes'[k].created = (k \notin DOMAIN before)
                   /\ Processes'[k].fetched
                         = (Processes'[k].created \/ call.attrs)
                   /\ Processes'[k].fetched
                         => IF k \in call.sysctlFailed
                            THEN Processes'[k].comm = "" /\ Processes'[k].Uid = 0
                            ELSE Processes'[k].comm # "" /\ Processes'[k].Uid > 0
                   /\ (~Processes'[k].fetched)
                         => /\ Processes'[k].comm = before[k].comm
                            /\ Processes'[k].Uid = before[k].Uid
                            /\ Processes'[k].user = before[k].user
                   /\ (k \notin call.infoFailed)
                         => IF k \in DOMAIN before
                            THEN /\ Processes'[k].Metrics.UserTime.p
                                      = before[k].Metrics.UserTime.v
                                 /\ Processes'[k].Metrics.SystemTime.p
                                      = before[k].Metrics.SystemTime.v
                            ELSE /\ Processes'[k].Metrics.UserTime.n = 1
                                 /\ Processes'[k].Metrics.SystemTime.n = 1]_vars

\* a pass without collectAttributes is about to return: it has kept one
\* entity, whose attributes it did not fetch again and whose counters it set
\* a second time, and has created another, whose attributes it fetched
C19_Witness ==
    /\ Len(inPass.pidstat) = 1
    /\ inPass.pidstat[1].at = "task" /\ inPass.pidstat[1].tasks = <<>>
    /\ ~inPass.pidstat[1].attrs
    /\ \E k \in DOMAIN Processes :
          /\ ~Processes[k].created /\ ~Processes[k].fetched
          /\ ~Processes[k].dead
          /\ Processes[k].comm # ""
          /\ Processes[k].Metrics.UserTime.n = 2
    /\ \E j \in DOMAIN Processes :
          /\ Processes[j].created /\ Processes[j].fetched
          /\ Processes[j].Metrics.UserTime.n = 1

\* C20: the metrics of a tracked process are registered in the metric
\* context under pidstat.<pid>.<Field>, one name for each Counter or Gauge
\* field of its metrics (pidstat.<pid>.ResidentSize is one of them).
C20_ProcessMetricNames ==
    \A k \in DOMAIN Processes :
        Processes[k].registered
            = { "pidstat." \o k \o "." \o F : F \in DOMAIN Processes[k].Metrics }

\* what the reader named call compares of the entity of key k
UsageOf(call, k) ==
    IF call = "ByCPUUsage" THEN CPUUsage(Processes[k]) ELSE MemUsage(Processes[k])

\* C21: a call of ByCPUUsage (resp. ByMemUsage) leaves Processes as it was
\* and returns the tracked processes whose CPUUsage() (resp. MemUsage()) is
\* not NaN, each once, in non-increasing order of that value.
C21_SortedByUsage ==
    [][returned' # returned
         => LET call == returned'.call
                v == returned'.v
            IN  /\ Processes' = Processes
                /\ SeqToSet(v)
                     = { k \in DOMAIN Processes : ~IsNaN(UsageOf(call, k)) }
                /\ \A i, j \in DOMAIN v : v[i] = v[j] => i = j
                /\ \A i, j \in DOMAIN v :
                      i < j => ~FGt(UsageOf(call, v[j]), UsageOf(call, v[i]))]_vars

\* ByCPUUsage returned two processes of different usage and left out a
\* tracked process whose usage is NaN
C21_Witness ==
    /\ returned.call = "ByCPUUsage"
    /\ Len(returned.v) = 2
    /\ FGt(CPUUsage(Processes[returned.v[1]]), CPUUsage(Processes[returned.v[2]]))
    /\ \E k \in DOMAIN Processes : IsNaN(CPUUsage(Processes[k]))

\* C22: the slice a call of CPUS returns holds the keys of cpus, each once,
\* and nothing else, and PerCPUStat is not nil for any of its elements.
C22_CPUSAreTheKeys ==
    [][(returned' # returned /\ returned'.call = "CPUS")
         => /\ SeqToSet(returned'.v) = DOMAIN cpus
            /\ Len(returned'.v) = Cardinality(DOMAIN cpus)
            /\ \A i \in DOMAIN returned'.v :
                  PerCPUStat(cpus, returned'.v[i]) # [nil |-> TRUE]]_vars

\* C23: for each collector at most one call of Collect is in progress: the
\* pass of a firing has returned when the pass of the next firing starts.
C23_SingleFlight ==
    \A c \in DOMAIN inPass : Len(inPass[c]) <= 1

\* passes of two collectors are in progress at once, both in their loop
C23_Witness ==
    /\ Len(inPass.pidstat) = 1 /\ inPass.pidstat[1].tasks # <<>>
    /\ Len(inPass.fsstat) = 1 /\ inPass.fsstat[1].lines # <<>>
    /\ DOMAIN Processes # {}

\* a line of /proc/mounts of a cgroup mount whose options include cpu
IsCpuCgroupMount(line) ==
    LET f == RegexpSplit(line, 6)
    IN  /\ InRange(f, 3)
        /\ At(f, 2) = "cgroup"
        /\ \E o \in SeqToSet(StringsSplit(At(f, 3), ",")) : o = "cpu"

\* C24: NewCgroupStat looks the mountpoint up once, as the mount point of
\* the first line of /proc/mounts of a cgroup mount whose options include
\* cpu: what it found never changes afterwards, the passes are those of
\* the ticker it started, and when the lookup failed no ticker is started,
\* no pass ever runs and Cgroups stays empty.
C24_MountpointLocatedOnce ==
    [][/\ cgroupStat.made => cgroupStat' = cgroupStat
       /\ cgroupStat'.made
             => LET lines == cgroupStat'.read.lines
                    hits == { i \in DOMAIN lines : IsCpuCgroupMount(lines[i]) }
                IN  /\ cgroupStat'.ticker = (hits # {})
                    /\ \A i \in hits :
                          (\A j \in hits : i <= j)
                             => cgroupStat'.Mountpoint
                                   = At(RegexpSplit(lines[i], 6), 1)
       /\ \A i \in DOMAIN inPass'.cgroup :
             /\ cgroupStat'.ticker
             /\ inPass'.cgroup[i].mountpoint = cgroupStat'.Mountpoint
             /\ inPass'.cgroup[i].mountpoint # ""
       /\ (cgroupStat'.made /\ ~cgroupStat'.ticker)
             => (inPass'.cgroup = <<>> /\ Cgroups' = EmptyMap)]_vars

\* the lookup found /cgroup/cpu and a pass of the ticker tracks a cgroup
C24_Witness ==
    /\ cgroupStat.made /\ cgroupStat.ticker
    /\ cgroupStat.Mountpoint = "/cgroup/cpu"
    /\ inPass.cgroup = <<>> /\ DOMAIN Cgroups # {}

\* the step removes a key from the registry h
Evicts(h, c) == ~(DOMAIN h \subseteq DOMAIN c)

C26_AtMostOnePassPerFiring ==
    [][Len(ticker'.passes) <= 1]_vars

\* C27: a call of ByCPUUsage or of ByMemUsage does not happen while a pass
\* of ProcessStat.Collect is in progress: the process is not ended by it
\* and no entity it returns is marked dead.
C27_ReadersSeeNoPass ==
    [][/\ returned' # returned
            => /\ inPass.pidstat = <<>>
               /\ \A i \in DOMAIN returned'.v : ~Processes[returned'.v[i]].dead
       /\ ~panicked']_vars

\* the step is a turn of the loop of CPUStat.Collect over the line line
ReadsStatLine(line) ==
    /\ inPass.cpustat # <<>>
    /\ inPass.cpustat[1].lines # <<>>
    /\ Head(inPass.cpustat[1].lines) = line
    /\ inPass'.cpustat # <<>>
    /\ inPass'.cpustat[1].lines = Tail(inPass.cpustat[1].lines)

\* C28: a pass of CPUStat.Collect removes no key of cpus; a key it adds is
\* the first field of a line it read, and starts with cpu; cpu itself is
\* never a key, and a pass that reads a cpu line sets the counters of All.
C28_CPUsOnlyGrow ==
    [][/\ DOMAIN cpus \subseteq DOMAIN cpus'
       /\ "cpu" \notin DOMAIN cpus'
       /\ \A k \in DOMAIN cpus' \ DOMAIN cpus :
             /\ HasPrefix(k, "cpu")
             /\ \E line \in StatLines :
                   ReadsStatLine(line) /\ At(StatFields[line], 0) = k
       /\ \A line \in StatLines :
             (ReadsStatLine(line) /\ At(StatFields[line], 0) = "cpu"
                /\ ~panicked')
                => /\ All'.since = 0
                   /\ All'.User.n >= 1
                   /\ All'.User.p = All.User.v
                   /\ All'.Total.p = All.Total.v]_vars

\* cpu0 is tracked although the pass that is about to return read the cpu
\* line only, which it parsed into All
C28_Witness ==
    /\ "cpu0" \in DOMAIN cpus
    /\ Len(inPass.cpustat) = 1
    /\ inPass.cpustat[1].stat = <<"cpu 100 0 50 850 0 0 0 0 0">>
    /\ inPass.cpustat[1].lines = <<>>
    /\ ~panicked
    /\ All.since = 0 /\ All.User.n = 2

----------------------------------------------------------------------------
(* C29 *)

\* the metric names of the cgroup g1 below the mountpoint
CgroupMetricNames ==
    {"cpustat.cgroup.g1.NrPeriods", "cpustat.cgroup.g1.NrThrottled",
     "cpustat.cgroup.g1.ThrottledTime", "cpustat.cgroup.g1.CfsPeriodUs",
     "cpustat.cgroup.g1.CfsQuotaUs"}

\* the metric names of the filesystem mounted at /
FSMetricNames ==
    {"fsstat./.Bsize", "fsstat./.Blocks", "fsstat./.Bfree", "fsstat./.Bavail",
     "fsstat./.Files", "fsstat./.Ffree"}

\* C29: the registered metric names only accumulate.  No step of a pass
\* removes a name from the metric context; the names of a cgroup stay
\* registered when the entity is evicted, and those of a filesystem whatever
\* happens to the entity (FSStat.Collect evicts none); and a key that
\* becomes tracked, for the first time or again after an eviction, gets a
\* newly constructed entity that registers its metrics under the same names.
C29_RegisteredNamesAccumulate ==
    [][/\ context \subseteq context'
       /\ (CgroupPath(1) \in DOMAIN Cgroups /\ CgroupPath(1) \notin DOMAIN Cgroups')
             => CgroupMetricNames \subseteq context'
       /\ "/" \in DOMAIN FS => ("/" \in DOMAIN FS' /\ FSMetricNames \subseteq context')
       /\ (CgroupPath(1) \notin DOMAIN Cgroups /\ CgroupPath(1) \in DOMAIN Cgroups')
             => /\ Cgroups'[CgroupPath(1)].created
                /\ Cgroups'[CgroupPath(1)].registered = CgroupMetricNames
                /\ CgroupMetricNames \subseteq context'
       /\ ("/" \notin DOMAIN FS /\ "/" \in DOMAIN FS')
             => /\ FS'["/"].created
                /\ FS'["/"].registered = FSMetricNames
                /\ FSMetricNames \subseteq context']_vars

\* a cgroup was evicted and its names are still registered, as are those of
\* a filesystem, and the pass that will meet the cgroup again is about to
\* start
C29_Witness ==
    /\ CgroupPath(1) \notin DOMAIN Cgroups
    /\ CgroupMetricNames \subseteq context
    /\ FSMetricNames \subseteq context
    /\ inPass.cgroup = <<>> /\ inPass.fsstat = <<>>
    /\ ~panicked

============================================================================
